---------------------------- MODULE Spec2Model ----------------------------
(***************************************************************************)
(* Argo pod log viewer: the SSH session (app/ssh/connection_manager.py),   *)
(* the kubectl facade (app/kubernetes/operations.py), the worker tasks     *)
(* (app/ssh/argo_worker.py) and the window's task dispatching              *)
(* (app/ui/main_window.py).                                                *)
(*                                                                         *)
(* These specifications share this module:                                 *)
(*   SpecMetrics  one metrics task (ArgoWorker._handle_metrics) against    *)
(*                every sequence of remote answers to `kubectl top`;       *)
(*   SpecStream   one log task (ArgoWorker._handle_logs ->                 *)
(*                stream_pod_logs -> execute_streaming_command) step by    *)
(*                step, with its owner setting the stop flag;              *)
(*   Spec         the window's handlers starting, stopping and replacing   *)
(*                worker tasks on the main and the metrics session;        *)
(*   SpecSession  one SSHConnectionManager and one caller making calls     *)
(*                of connect, disconnect, execute_command,                 *)
(*                execute_streaming_command and the worker tasks, one      *)
(*                after the other, against a remote side that can fail     *)
(*                at every step;                                           *)
(*   SpecPrompt   one call of SSHConnectionManager._wait_for_prompt        *)
(*                against every arrival of output within its timeout;      *)
(*   SpecSanitize the two sanitizers of KubernetesOperations applied to    *)
(*                every short string and to strings about the length       *)
(*                limit, and then to what they returned;                   *)
(*   SpecParse    KubernetesOperations._parse_pod_list and                 *)
(*                ArgoWorker._parse_pod_names applied to every short       *)
(*                output of kubectl get pods;                              *)
(*   SpecFacade   the operations of KubernetesOperations called on one     *)
(*                string, on a session that is connected or not;           *)
(*   SpecTask     one ArgoWorker thread from start() to the end of run(),  *)
(*                for every action and every answer of the manager and     *)
(*                the operations;                                          *)
(*   SpecConnectTask  ArgoWorker._handle_connect on the manager the        *)
(*                window gave it: new, ready, or connected with a closed   *)
(*                channel;                                                 *)
(*   SpecStop     a log task or a metrics task and its stop flag           *)
(*                (SpecStopLive: with a thread that keeps running).        *)
(***************************************************************************)
EXTENDS Integers, Sequences, FiniteSets, TLC

VARIABLES
    \* ---- SpecMetrics: one ArgoWorker(action="metrics") ----
    m_pc,              \* position of the task in _handle_metrics
    m_pod,             \* self.pod: "none", "valid" or "invalid" (fails _sanitize_pod_name)
    m_connected,       \* ssh_manager.is_connected() of the session the task holds
    should_stop,       \* self._should_stop
    failed_attempts,   \* local failed_attempts
    retry_delay,       \* seconds of the sleep the task is in (0: none)
    m_window,          \* classes of the fetches since the last success (history)
    m_events,          \* signals emitted since the last success (history)
    m_errors,          \* number of error signals emitted by the task
    m_fetches,         \* number of get_pod_metrics calls since the last success
    \* ---- SpecStream: one SSHConnectionManager and one ArgoWorker(action="logs") ----
    connected,         \* SSHConnectionManager.connected
    shell,             \* SSHConnectionManager.shell: 0 is None, else the channel's identity
    client,            \* SSHConnectionManager.client: 0 is None, else the transport's identity
    chan_closed,       \* shell.closed and who closed it: "no", "remote", "local"
    pending,           \* chunks the remote has written that no recv() has read yet
    produced,          \* chunks the remote has written in all
    sent,              \* what was sent on the channel, in order
    l_pc,              \* position of the log task
    l_pod,             \* self.pod: "none", "valid" or "invalid"
    l_should_stop,     \* self._should_stop of the log task
    l_events,          \* signals the log task emitted, in order
    l_entry,           \* <<connected, shell, client>> when execute_streaming_command was entered
    l_stop_seen,       \* stop_check() has returned true
    l_chunks_at_stop,  \* output_callback calls made when stop_check() returned true
    l_chunks_at_flag,  \* output_callback calls made when stop() was called (history)
    l_result,          \* how execute_streaming_command ended: "", "stop_path", "read_break", "raised"
    follow,            \* outcome of an execute_command made after the task: "none", ...
    \* ---- Spec: MainWindow, its worker threads and their sessions ----
    win,               \* the fields and widget states of MainWindow the handlers read
    ui,                \* what the GUI thread has left to do in the handler it runs
    signals,           \* queued signals of worker threads, not yet delivered to their slots
    timers,            \* pending QTimer.singleShot(..., start_metrics_monitoring)
    workers,           \* the worker threads: QThread objects that were started
    managers,          \* the SSHConnectionManager objects
    metrics_connection_worker, \* the thread that connects the metrics manager
    \* ---- SpecSession: one SSHConnectionManager and the calls made on it ----
    s_pc,              \* position inside the call in progress ("idle": none)
    s_call,            \* the call in progress, or the last one made
    s_result,          \* how the last call ended
    s_output,          \* number of texts given to output_callback by the manager
    s_opened,          \* number of SSHClient objects made so far
    s_events,          \* error signals emitted by the worker tasks
    s_calls,           \* the calls completed, in order: what was called, how it ended,
                       \* and what the session was before and after (history)
    s_before,          \* what the session was when the call in progress began (history)
    s_prompts,         \* prompts detected by the connect() made last (history)
    \* ---- SpecPrompt: one call of _wait_for_prompt ----
    p_pc,              \* "idle", "loop" (in the while loop) or "done"
    p_timeout,         \* the timeout argument, in tenths of a second
    p_now,             \* time.time() - start_time, in tenths of a second
    p_last_activity,   \* last_activity - start_time, in tenths of a second
    p_buffer,          \* buffer: the characters received, in order
    p_ready,           \* what the channel holds for the next recv (<<>>: recv_ready() is false)
    p_arrivals,        \* number of chunks the remote side has written
    p_result,          \* how the call ended
    \* ---- SpecSanitize: the sanitizers of KubernetesOperations ----
    z_input,           \* the string given to the sanitizers
    z_grep,            \* what _sanitize_grep_pattern gave for it (<<>>: not called)
    z_pod,             \* what _sanitize_pod_name gave for it (<<>>: not called)
    z_grep_again,      \* what _sanitize_grep_pattern gave for its own result
    z_pod_again,       \* what _sanitize_pod_name gave for its own result
    \* ---- SpecParse: one call of KubernetesOperations._parse_pod_list ----
    q_lines,           \* the lines of the output given to the parser
    q_pods,            \* the pod names the parser returned
    q_called,          \* the parser has returned
    q_names,           \* the pod names ArgoWorker._parse_pod_names returned for the lines
    q_names_called,    \* _parse_pod_names has returned
    \* ---- SpecFacade: the operations of one KubernetesOperations on one string ----
    k_arg,             \* the keyword or pod name the caller supplies
    k_op,              \* the operation called last ("none": none yet)
    k_result,          \* how that operation ended
    k_calls,           \* number of operations called
    \* ---- SpecTask: one ArgoWorker thread, from start() to the end of run() ----
    t_pc,              \* where the thread is: "created", inside a handler, or "done"
    t_action,          \* self.action
    t_session,         \* self.ssh_manager: "none", "down" (not connected) or "up"
    t_events,          \* the signals the thread has emitted, in order
    t_calls,           \* the calls the thread has made on the manager and the operations
    t_listed,          \* the output list_all_pods returned to the thread (history)
    t_raised,          \* the exception that reached an except clause of the handler ("none": none)
    t_result           \* how run() ended: "returned" or "raised"

metricsVars == <<m_pc, m_pod, m_connected, should_stop, failed_attempts,
                 retry_delay, m_window, m_events, m_errors, m_fetches>>

sessionVars == <<connected, shell, client, chan_closed, pending, produced, sent>>

logVars == <<l_pc, l_pod, l_should_stop, l_events, l_entry, l_stop_seen,
             l_chunks_at_stop, l_chunks_at_flag, l_result, follow>>

winVars == <<win, ui, signals, timers, workers, managers,
             metrics_connection_worker>>

callVars == <<s_pc, s_call, s_result, s_output, s_opened, s_events, s_calls,
              s_before, s_prompts>>

promptVars == <<p_pc, p_timeout, p_now, p_last_activity, p_buffer, p_ready,
                p_arrivals, p_result>>

sanitizeVars == <<z_input, z_grep, z_pod, z_grep_again, z_pod_again>>

parseVars == <<q_lines, q_pods, q_called, q_names, q_names_called>>

facadeVars == <<k_arg, k_op, k_result, k_calls>>

taskVars == <<t_pc, t_action, t_session, t_events, t_calls, t_listed, t_raised, t_result>>

vars == <<metricsVars, sessionVars, logVars, winVars, callVars,
          promptVars, sanitizeVars, parseVars, facadeVars, taskVars>>

\* What a specification leaves alone: the variables of the others.
restOfMetrics  == <<sessionVars, logVars, winVars, callVars, promptVars,
                    sanitizeVars, parseVars, facadeVars, taskVars>>
restOfStream   == <<metricsVars, winVars, callVars, promptVars, sanitizeVars,
                    parseVars, facadeVars, taskVars>>
restOfWindow   == <<metricsVars, sessionVars, logVars, callVars, promptVars,
                    sanitizeVars, parseVars, facadeVars, taskVars>>
restOfSession  == <<metricsVars, logVars, winVars, pending, produced,
                    promptVars, sanitizeVars, parseVars, facadeVars, taskVars>>
restOfPrompt   == <<metricsVars, sessionVars, logVars, winVars, callVars,
                    sanitizeVars, parseVars, facadeVars, taskVars>>
restOfSanitize == <<metricsVars, sessionVars, logVars, winVars, callVars,
                    promptVars, parseVars, facadeVars, taskVars>>
restOfParse    == <<metricsVars, sessionVars, logVars, winVars, callVars,
                    promptVars, sanitizeVars, facadeVars, taskVars>>
restOfFacade   == <<metricsVars, logVars, winVars, callVars, promptVars,
                    sanitizeVars, parseVars, taskVars>>
restOfTask     == <<metricsVars, sessionVars, logVars, winVars, callVars,
                    promptVars, sanitizeVars, parseVars, facadeVars>>

-----------------------------------------------------------------------------
(***************************************************************************)
(* Text.  The messages the code tests are fixed strings of the source; a   *)
(* message is modelled as the sequence of its blank-separated words, and   *)
(* `needle in message` as the search for a contiguous run of words.  All   *)
(* needles of the source start and end at word boundaries of the messages  *)
(* the source can build.                                                   *)
(***************************************************************************)

\* str.lower() on one word, for the words of the messages below.
LowerWord(w) ==
    CASE w = "Pod"      -> "pod"
      [] w = "Metrics"  -> "metrics"
      [] w = "Timeout"  -> "timeout"
      [] w = "Not"      -> "not"
      [] w = "Call"     -> "call"
      [] w = "Socket"   -> "socket"
      [] w = "API"      -> "api"
      [] w = "Invalid"  -> "invalid"
      [] OTHER          -> w

\* str.lower()
Lower(msg) == [i \in 1..Len(msg) |-> LowerWord(msg[i])]

\* `needle in msg`
Contains(msg, needle) ==
    \E i \in 1..(Len(msg) - Len(needle) + 1) :
        SubSeq(msg, i, i + Len(needle) - 1) = needle

\* Messages raised inside get_pod_metrics and below it.
MsgPodNotFound    == <<"Pod", "not", "found">>
MsgNotReady       == <<"Pod", "too", "new", "-", "metrics", "not", "ready", "(wait", "15-60s)">>
MsgServerNA       == <<"Metrics", "server", "not", "available">>
MsgNotAvailYet    == <<"Metrics", "not", "available", "yet", "-", "pod", "may", "be", "too", "new">>
MsgCollecting     == <<"Pod", "too", "new", "-", "metrics", "collecting", "(wait", "~30s)">>
MsgTimedOut       == <<"Metrics", "request", "timed", "out">>
MsgPromptTimeout  == <<"Timeout", "waiting", "for", "shell", "prompt", "after", "8.0s">>
MsgNotConnected   == <<"Not", "connected.", "Call", "connect()", "first.">>
MsgSocketClosed   == <<"Socket", "is", "closed">>
MsgInvalidPod     == <<"Invalid", "pod", "name", "-", "must", "start", "with", "alphanumeric", "character">>
MetricsUnavailable(e) == <<"Metrics", "unavailable:">> \o e

-----------------------------------------------------------------------------
(***************************************************************************)
(* KubernetesOperations.get_pod_metrics                                    *)
(***************************************************************************)

\* What execute_command("kubectl top pod ...") can do, by what get_pod_metrics
\* tests of it.  io: "ok" (a text came back), "timeout" (_wait_for_prompt
\* raised), "closed" (the channel raised).  The flags are the substring tests
\* of lines 292-323 on the returned text.
Answer(io, err, nf, mna, nya, empty, short) ==
    [io |-> io, has_error |-> err, has_not_found |-> nf, has_metrics_na |-> mna,
     has_not_yet |-> nya, empty |-> empty, short |-> short]

AnsMetrics    == Answer("ok", FALSE, FALSE, FALSE, FALSE, FALSE, FALSE)  \* "pod-1 5m 20Mi"
AnsNotFound   == Answer("ok", TRUE,  TRUE,  FALSE, FALSE, FALSE, FALSE)  \* Error ... not found
AnsMetricsNA  == Answer("ok", TRUE,  FALSE, TRUE,  FALSE, FALSE, FALSE)  \* error: metrics not available yet
AnsNotYet     == Answer("ok", TRUE,  FALSE, FALSE, TRUE,  FALSE, FALSE)  \* error: ... not yet available
AnsApiMissing == Answer("ok", TRUE,  FALSE, FALSE, FALSE, FALSE, FALSE)  \* error: Metrics API not available
AnsEmpty      == Answer("ok", FALSE, FALSE, FALSE, FALSE, TRUE,  TRUE)   \* nothing at all
AnsEchoOnly   == Answer("ok", FALSE, FALSE, FALSE, FALSE, FALSE, TRUE)   \* echo and prompt only
AnsTimeout    == Answer("timeout", FALSE, FALSE, FALSE, FALSE, FALSE, FALSE)
AnsClosed     == Answer("closed", FALSE, FALSE, FALSE, FALSE, FALSE, FALSE)

Answers == {AnsMetrics, AnsNotFound, AnsMetricsNA, AnsNotYet, AnsApiMissing,
            AnsEmpty, AnsEchoOnly, AnsTimeout, AnsClosed}

\* The exception the `try` body of get_pod_metrics raises for an answer, or
\* <<>> when it returns the cleaned text (lines 285-326).
TryBodyError(conn, a) ==
    IF ~conn THEN MsgNotConnected
    ELSE IF a.io = "timeout" THEN MsgPromptTimeout
    ELSE IF a.io = "closed" THEN MsgSocketClosed
    ELSE IF a.has_error THEN
        IF a.has_not_found THEN MsgPodNotFound
        ELSE IF a.has_metrics_na \/ a.has_not_yet THEN MsgNotReady
        ELSE MsgServerNA
    ELSE IF a.empty THEN MsgNotAvailYet
    ELSE IF a.short THEN MsgCollecting
    ELSE <<>>

\* The `except Exception` handler of get_pod_metrics (lines 332-344): the
\* message of the exception that leaves the function.
Reraise(e) ==
    IF Contains(Lower(e), <<"timeout">>) \/ Contains(e, <<"Timeout">>) THEN MsgTimedOut
    ELSE IF \/ Contains(e, <<"Pod", "too", "new">>)
            \/ Contains(Lower(e), <<"not", "ready">>)
            \/ Contains(Lower(e), <<"not", "yet", "available">>) THEN e
    ELSE MetricsUnavailable(e)

\* get_pod_metrics(pod): [ok |-> TRUE] or [ok |-> FALSE, msg |-> str(e)].
get_pod_metrics(pod, conn, a) ==
    IF pod = "invalid" THEN [ok |-> FALSE, msg |-> MsgInvalidPod]
    ELSE IF TryBodyError(conn, a) = <<>> THEN [ok |-> TRUE, msg |-> <<>>]
    ELSE [ok |-> FALSE, msg |-> Reraise(TryBodyError(conn, a))]

-----------------------------------------------------------------------------
(***************************************************************************)
(* ArgoWorker._handle_metrics                                              *)
(***************************************************************************)

max_failed_attempts == 7

is_hard_error_api_only(error_msg) ==
    \/ Contains(error_msg, <<"Metrics", "API", "not", "available">>)
    \/ Contains(error_msg, <<"metrics.k8s.io">>)

is_hard_error(error_msg) ==
    \/ Contains(error_msg, <<"Metrics", "server", "not", "available">>)
    \/ Contains(error_msg, <<"Metrics", "API", "not", "available">>)
    \/ Contains(error_msg, <<"metrics.k8s.io">>)

is_pod_too_new(error_msg) ==
    \/ Contains(error_msg, <<"Pod", "too", "new">>)
    \/ Contains(Lower(error_msg), <<"not", "ready">>)
    \/ Contains(Lower(error_msg), <<"not", "yet", "available">>)
    \/ Contains(Lower(error_msg), <<"metrics", "collecting">>)

StillRetrying_off_by_one(attempts) == attempts + 1 < max_failed_attempts

\* `failed_attempts < max_failed_attempts` (line 364)
StillRetrying(attempts) == attempts < max_failed_attempts

CapReached_after(attempts) == attempts > max_failed_attempts

\* `failed_attempts >= max_failed_attempts` (line 376)
CapReached(attempts) == attempts >= max_failed_attempts

retry_delay_uncapped(attempts) == 2 * attempts

\* `retry_delay = min(2 * failed_attempts, 5)` (line 385)
RetryDelay(attempts) == IF 2 * attempts < 5 THEN 2 * attempts ELSE 5

\* What one fetch did, read off the exception get_pod_metrics raised: "ok",
\* "too_new" (one of its two "Pod too new - ..." messages), "hard" (its
\* "Metrics server not available") or "other".  History only: the task's own
\* tests are is_hard_error and is_pod_too_new.
Outcome(r) ==
    IF r.ok THEN "ok"
    ELSE IF r.msg \in {MsgNotReady, MsgCollecting} THEN "too_new"
    ELSE IF r.msg = MetricsUnavailable(MsgServerNA) THEN "hard"
    ELSE "other"

\* Signals of the task: metrics.emit(<real text>), metrics.emit("Pod too
\* new, waiting ..."), and error.emit with one of its five texts.
EvReal      == "metrics"
EvWaiting   == "waiting"
EvErrHard   == "error: Metrics server not installed in cluster"
EvErrTooNew == "error: Pod is too new"
EvErrTimed  == "error: timed out after 7 retries"
EvErrCap    == "error: unavailable after 7 attempts"
EvErrStart  == "error: Metrics unavailable"
ErrorEvents == {EvErrHard, EvErrTooNew, EvErrTimed, EvErrCap, EvErrStart}

MetricsInit ==
    /\ m_pc = "start"
    /\ m_pod \in {"none", "valid", "invalid"}
    /\ m_connected \in BOOLEAN
    /\ should_stop = FALSE
    /\ failed_attempts = 0
    /\ retry_delay = 0
    /\ m_window = <<>>
    /\ m_events = <<>>
    /\ m_errors = 0
    /\ m_fetches = 0

\* Lines 304-309: the two checks before the loop; a raise goes to the outer
\* handler (lines 391-394), which emits one error.
MetricsStart ==
    /\ m_pc = "start"
    /\ IF ~m_connected \/ m_pod = "none"
       THEN /\ m_pc' = "done"
            /\ m_events' = Append(m_events, EvErrStart)
            /\ m_errors' = m_errors + 1
       ELSE /\ m_pc' = "loop"
            /\ UNCHANGED <<m_events, m_errors>>
    /\ UNCHANGED <<m_pod, m_connected, should_stop, failed_attempts, retry_delay,
                   m_window, m_fetches>>
    /\ UNCHANGED restOfMetrics

\* Line 319: `while not self._should_stop`.
MetricsLoopCheck ==
    /\ m_pc = "loop"
    /\ m_pc' = IF should_stop THEN "done" ELSE "fetch"
    /\ UNCHANGED <<m_pod, m_connected, should_stop, failed_attempts, retry_delay,
                   m_window, m_events, m_errors, m_fetches>>
    /\ UNCHANGED restOfMetrics

\* Lines 320-387: one get_pod_metrics call and what follows it, up to the
\* sleep or the break.
MetricsFetch ==
    /\ m_pc = "fetch"
    /\ \E a \in Answers :
        LET r     == get_pod_metrics(m_pod, m_connected, a)
            n     == failed_attempts + 1
            fresh == m_window # <<>> /\ m_window[Len(m_window)] = "ok"
            hist  == IF fresh THEN <<>> ELSE m_window
            evs   == IF fresh THEN <<>> ELSE m_events
            cnt   == IF fresh THEN 0 ELSE m_fetches
        IN  /\ m_window' = Append(hist, Outcome(r))
            /\ m_fetches' = cnt + 1
            /\ IF r.ok THEN
                    /\ m_events' = Append(evs, EvReal)
                    /\ failed_attempts' = 0
                    /\ retry_delay' = 10
                    /\ m_pc' = "sleep"
                    /\ UNCHANGED m_errors
               ELSE IF is_hard_error(r.msg) THEN
                    /\ m_events' = Append(evs, EvErrHard)
                    /\ m_errors' = m_errors + 1
                    /\ failed_attempts' = n
                    /\ m_pc' = "done"
                    /\ UNCHANGED retry_delay
               ELSE IF is_pod_too_new(r.msg) THEN
                    IF StillRetrying(n) THEN
                        /\ m_events' = Append(evs, EvWaiting)
                        /\ failed_attempts' = n
                        /\ retry_delay' = 3
                        /\ m_pc' = "sleep"
                        /\ UNCHANGED m_errors
                    ELSE
                        /\ m_events' = Append(evs, EvErrTooNew)
                        /\ m_errors' = m_errors + 1
                        /\ failed_attempts' = n
                        /\ m_pc' = "done"
                        /\ UNCHANGED retry_delay
               ELSE IF CapReached(n) THEN
                    /\ m_events' = Append(evs,
                           IF Contains(Lower(r.msg), <<"timed", "out">>)
                           THEN EvErrTimed ELSE EvErrCap)
                    /\ m_errors' = m_errors + 1
                    /\ failed_attempts' = n
                    /\ m_pc' = "done"
                    /\ UNCHANGED retry_delay
               ELSE
                    /\ failed_attempts' = n
                    /\ retry_delay' = RetryDelay(n)
                    /\ m_pc' = "sleep"
                    /\ m_events' = evs
                    /\ UNCHANGED m_errors
    /\ UNCHANGED <<m_pod, m_connected, should_stop>>
    /\ UNCHANGED restOfMetrics

\* A sleep that is followed by the next fetch.
MetricsSleepDone_then_fetch ==
    /\ m_pc = "sleep"
    /\ m_pc' = "fetch"
    /\ retry_delay' = 0
    /\ UNCHANGED <<m_pod, m_connected, should_stop, failed_attempts,
                   m_window, m_events, m_errors, m_fetches>>
    /\ UNCHANGED restOfMetrics

\* The end of a sleep (lines 332-335, 369, 387): back to the loop test.
MetricsSleepDone ==
    /\ m_pc = "sleep"
    /\ m_pc' = "loop"
    /\ retry_delay' = 0
    /\ UNCHANGED <<m_pod, m_connected, should_stop, failed_attempts,
                   m_window, m_events, m_errors, m_fetches>>
    /\ UNCHANGED restOfMetrics

\* ArgoWorker.stop(), called by the owner at any time.
MetricsStop ==
    /\ m_pc # "done"
    /\ ~should_stop
    /\ should_stop' = TRUE
    /\ UNCHANGED <<m_pc, m_pod, m_connected, failed_attempts, retry_delay,
                   m_window, m_events, m_errors, m_fetches>>
    /\ UNCHANGED restOfMetrics

\* The owner tears the metrics session down (handle_disconnect) while the
\* task is still running: later fetches raise "Not connected".
MetricsSessionDown ==
    /\ m_pc # "done"
    /\ should_stop
    /\ m_connected
    /\ m_connected' = FALSE
    /\ UNCHANGED <<m_pc, m_pod, should_stop, failed_attempts, retry_delay,
                   m_window, m_events, m_errors, m_fetches>>
    /\ UNCHANGED restOfMetrics

MetricsNext ==
    \/ MetricsStart
    \/ MetricsLoopCheck
    \/ MetricsFetch
    \/ MetricsSleepDone
    \/ MetricsStop
    \/ MetricsSessionDown

\* The variables of the other specifications, at rest.
SessionIdle ==
    /\ connected = FALSE /\ shell = 0 /\ client = 0 /\ chan_closed = "no"
    /\ pending = 0 /\ produced = 0 /\ sent = <<>>

LogIdle ==
    /\ l_pc = "idle" /\ l_pod = "none" /\ l_should_stop = FALSE /\ l_events = <<>>
    /\ l_entry = <<>> /\ l_stop_seen = FALSE /\ l_chunks_at_stop = 0
    /\ l_chunks_at_flag = 0
    /\ l_result = "" /\ follow = "none"

WindowIdle ==
    /\ win = <<>> /\ ui = <<>> /\ signals = <<>> /\ timers = 0
    /\ workers = <<>> /\ managers = <<>>
    /\ metrics_connection_worker = <<>>

CallIdle ==
    /\ s_pc = "idle" /\ s_call = "none" /\ s_result = "none" /\ s_output = 0
    /\ s_opened = 0 /\ s_events = 0 /\ s_calls = <<>> /\ s_before = <<>>
    /\ s_prompts = 0

\* No call of _wait_for_prompt is followed.
PromptIdle ==
    /\ p_pc = "idle" /\ p_timeout = 0 /\ p_now = 0 /\ p_last_activity = 0
    /\ p_buffer = <<>> /\ p_ready = <<>> /\ p_arrivals = 0 /\ p_result = <<>>

\* No string is given to the sanitizers.
SanitizeIdle ==
    /\ z_input = <<>> /\ z_grep = <<>> /\ z_pod = <<>>
    /\ z_grep_again = <<>> /\ z_pod_again = <<>>

\* SpecParse: one call of KubernetesOperations._parse_pod_list: nothing is followed.
ParseIdle ==
    q_lines = <<>> /\ q_pods = <<>> /\ q_called = FALSE
    /\ q_names = <<>> /\ q_names_called = FALSE

\* SpecFacade: the operations of one KubernetesOperations on one string: nothing is followed.
FacadeIdle ==
    k_arg = <<>> /\ k_op = "none" /\ k_result = <<>> /\ k_calls = 0

\* SpecTask: one ArgoWorker thread, from start() to the end of run(): nothing is followed.
TaskIdle ==
    /\ t_pc = "idle" /\ t_action = "none" /\ t_session = "none" /\ t_events = <<>>
    /\ t_calls = <<>> /\ t_listed = <<>> /\ t_raised = "none" /\ t_result = "none"

MetricsIdle ==
    /\ m_pc = "idle" /\ m_pod = "none" /\ m_connected = FALSE /\ should_stop = FALSE
    /\ failed_attempts = 0 /\ retry_delay = 0 /\ m_window = <<>> /\ m_events = <<>>
    /\ m_errors = 0 /\ m_fetches = 0

InitMetrics == MetricsInit /\ SessionIdle /\ LogIdle /\ WindowIdle
    /\ CallIdle /\ PromptIdle /\ SanitizeIdle
    /\ ParseIdle
    /\ FacadeIdle
    /\ TaskIdle

SpecMetrics == InitMetrics /\ [][MetricsNext]_vars

-----------------------------------------------------------------------------
(***************************************************************************)
(* Claims on the metrics task (checked under SpecMetrics)                  *)
(***************************************************************************)

Repeat(x, n) == [i \in 1..n |-> x]
Last(s) == s[Len(s)]
HardFailureSeen == m_window # <<>> /\ Last(m_window) = "hard"

\* C8: when the first six fetches since the start or the last success fail
\* with 'pod too new' and the seventh succeeds, the task has emitted a
\* 'waiting' status after each of the six failures, then exactly one real
\* metrics result, no error, and it goes on polling (it ends only when it
\* is stopped).
C8_SixTooNewThenSuccess ==
    /\ \A k \in 1..6 :
          m_window = Repeat("too_new", k) =>
              /\ m_events = Repeat(EvWaiting, k)
              /\ m_errors = 0
              /\ failed_attempts = k
              /\ (m_pc = "done" => should_stop)
    /\ m_window = Repeat("too_new", 6) \o <<"ok">> =>
          /\ m_events = Repeat(EvWaiting, 6) \o <<EvReal>>
          /\ m_errors = 0
          /\ failed_attempts = 0
          /\ (m_pc = "done" => should_stop)

\* C8 witness: six 'pod too new', a success, and the task is about to
\* fetch again.
C8_Witness ==
    /\ m_window = Repeat("too_new", 6) \o <<"ok">>
    /\ m_pc = "fetch"

\* C9 (as claimed): after the seventh consecutive 'pod too new' failure the
\* task still retries: it has emitted seven 'waiting' statuses and no error.
C9_RetriesAfterSeventhFailure ==
    m_window = Repeat("too_new", 7) =>
        /\ m_events = Repeat(EvWaiting, 7)
        /\ m_errors = 0

\* C10: a hard failure (metrics backend absent) makes the task emit the one
\* error event of its life and end at once, whatever the failure count was;
\* from then on it fetches nothing, sleeps for no retry and emits nothing.
C10_HardFailureEndsTask ==
    [][ /\ HardFailureSeen' =>
              /\ m_pc' = "done"
              /\ m_errors' = 1
              /\ Last(m_events') = EvErrHard
              /\ \A i \in 1..(Len(m_events') - 1) : m_events'[i] \notin ErrorEvents
        /\ HardFailureSeen =>
              UNCHANGED <<m_pc, m_window, m_events, m_errors, m_fetches, retry_delay>>
      ]_vars

\* C10 witness: the hard failure came as the seventh failure in a row.
C10_Witness ==
    /\ HardFailureSeen
    /\ failed_attempts = max_failed_attempts
    /\ m_pc = "done"

-----------------------------------------------------------------------------
(***************************************************************************)
(* SSHConnectionManager.execute_streaming_command under                    *)
(* KubernetesOperations.stream_pod_logs under ArgoWorker._handle_logs      *)
(***************************************************************************)

MaxChunks == 3

Count(seq, x) == Cardinality({i \in 1..Len(seq) : seq[i] = x})

\* Signals of the log task: output.emit of the two banner lines, of a chunk,
\* of the final text, of "[ERROR] ...", and error.emit.
EvBanner  == "output: [CMD] kubectl logs / [INFO] Streaming logs"
EvChunk   == "output: chunk"
EvStopped == "output: [INFO] Log streaming stopped"
EvErrText == "output: [ERROR] Failed to stream logs"
EvError   == "error: Failed to stream logs"

CmdLogs    == "kubectl logs <pod> -n <namespace> -f"
CmdGetPods == "kubectl get pods -n <namespace> --field-selector=status.phase=Running"
CtrlC      == "\\x03"

\* SSHConnectionManager.is_connected
is_connected(conn, sh, closed) == conn /\ sh # 0 /\ closed = "no"

\* shell.send raises: the channel is closed, or self.shell is None.
SendRaises(sh, closed) == sh = 0 \/ closed # "no"

StopPathSession_cleanup(sess) == [connected |-> FALSE, shell |-> 0, client |-> 0]

\* The session fields after the stop path of execute_streaming_command
\* (lines 254-265): it assigns none of them and closes nothing.
StopPathSession(sess) == sess

StreamInit ==
    /\ \E st \in {"ready", "down", "stale"} :
        /\ connected = (st # "down")
        /\ shell = IF st = "down" THEN 0 ELSE 1
        /\ client = IF st = "down" THEN 0 ELSE 1
        /\ chan_closed = IF st = "stale" THEN "remote" ELSE "no"
    /\ pending = 0
    /\ produced = 0
    /\ sent = <<>>
    /\ l_pc = "start"
    /\ l_pod \in {"none", "valid", "invalid"}
    /\ l_should_stop = FALSE
    /\ l_events = <<>>
    /\ l_entry = <<>>
    /\ l_stop_seen = FALSE
    /\ l_chunks_at_stop = 0
    /\ l_chunks_at_flag = 0
    /\ l_result = ""
    /\ follow = "none"

\* _handle_logs lines 270-279 and stream_pod_logs lines 177-201: the
\* connection check, the banner, the pod-name checks.
LogsStart ==
    /\ l_pc = "start"
    /\ IF ~is_connected(connected, shell, chan_closed)
       THEN /\ l_events' = l_events \o <<EvErrText, EvError>>
            /\ l_pc' = "done"
       ELSE IF l_pod # "valid"
       THEN /\ l_events' = l_events \o <<EvBanner, EvErrText, EvError>>
            /\ l_pc' = "done"
       ELSE /\ l_events' = Append(l_events, EvBanner)
            /\ l_pc' = "enter"
    /\ UNCHANGED <<sessionVars, l_pod, l_should_stop, l_entry, l_stop_seen,
                   l_chunks_at_stop, l_chunks_at_flag, l_result, follow>>
    /\ UNCHANGED restOfStream

\* execute_streaming_command lines 239-246: the connected test and the send
\* of the command.
StreamEnter ==
    /\ l_pc = "enter"
    /\ l_entry' = <<connected, shell, client>>
    /\ IF ~connected \/ SendRaises(shell, chan_closed)
       THEN /\ l_result' = "raised"
            /\ l_pc' = "raised"
            /\ UNCHANGED sent
       ELSE /\ sent' = Append(sent, CmdLogs)
            /\ l_pc' = "loop"
            /\ UNCHANGED l_result
    /\ UNCHANGED <<connected, shell, client, chan_closed, pending, produced,
                   l_pod, l_should_stop, l_events, l_stop_seen, l_chunks_at_stop,
                   l_chunks_at_flag, follow>>
    /\ UNCHANGED restOfStream

\* A pass of the loop that does not look at the flag.
StreamStopCheck_flag_unread ==
    /\ l_pc = "loop"
    /\ l_pc' = "read"
    /\ UNCHANGED <<sessionVars, l_pod, l_should_stop, l_events, l_entry, l_result, follow,
                   l_stop_seen, l_chunks_at_stop, l_chunks_at_flag>>
    /\ UNCHANGED restOfStream

\* Line 254: `if stop_check and stop_check()`.
StreamStopCheck ==
    /\ l_pc = "loop"
    /\ IF l_should_stop
       THEN /\ l_stop_seen' = TRUE
            /\ l_chunks_at_stop' = Count(l_events, EvChunk)
            /\ l_pc' = "interrupt"
       ELSE /\ l_pc' = "read"
            /\ UNCHANGED <<l_stop_seen, l_chunks_at_stop>>
    /\ UNCHANGED <<sessionVars, l_pod, l_should_stop, l_events, l_entry, l_result, follow,
                   l_chunks_at_flag>>
    /\ UNCHANGED restOfStream

\* Lines 256-257: self.shell.send('\x03'), outside every try.
StreamInterrupt ==
    /\ l_pc = "interrupt"
    /\ IF SendRaises(shell, chan_closed)
       THEN /\ l_result' = "raised"
            /\ l_pc' = "raised"
            /\ UNCHANGED sent
       ELSE /\ sent' = Append(sent, CtrlC)
            /\ l_pc' = "drain"
            /\ UNCHANGED l_result
    /\ UNCHANGED <<connected, shell, client, chan_closed, pending, produced,
                   l_pod, l_should_stop, l_events, l_entry, l_stop_seen,
                   l_chunks_at_stop, l_chunks_at_flag, follow>>
    /\ UNCHANGED restOfStream

\* Lines 258-265: the drain loop reads what is there and drops it; whatever
\* it raises is swallowed; then break.
StreamDrain ==
    /\ l_pc = "drain"
    /\ pending' = 0
    /\ LET after == StopPathSession([connected |-> connected, shell |-> shell,
                                     client |-> client])
       IN  /\ connected' = after.connected
           /\ shell' = after.shell
           /\ client' = after.client
           /\ chan_closed' = IF shell # 0 /\ after.shell = 0 THEN "local" ELSE chan_closed
    /\ l_result' = "stop_path"
    /\ l_pc' = "returned"
    /\ UNCHANGED <<produced, sent, l_pod, l_should_stop, l_events, l_entry,
                   l_stop_seen, l_chunks_at_stop, l_chunks_at_flag, follow>>
    /\ UNCHANGED restOfStream

\* Lines 268-281: one pass of the read: a chunk goes to output_callback, or
\* nothing is ready and the loop sleeps 0.1 s; an exception (of the read or
\* of the callback) ends the loop.
StreamRead ==
    /\ l_pc = "read"
    /\ \/ /\ pending > 0
          /\ pending' = pending - 1
          /\ l_events' = Append(l_events, EvChunk)
          /\ l_pc' = "loop"
          /\ UNCHANGED l_result
       \/ /\ pending > 0
          /\ pending' = pending - 1
          /\ l_result' = "read_break"
          /\ l_pc' = "returned"
          /\ UNCHANGED l_events
       \/ /\ pending = 0
          /\ l_pc' = "loop"
          /\ UNCHANGED <<pending, l_events, l_result>>
    /\ UNCHANGED <<connected, shell, client, chan_closed, produced, sent,
                   l_pod, l_should_stop, l_entry, l_stop_seen, l_chunks_at_stop,
                   l_chunks_at_flag, follow>>
    /\ UNCHANGED restOfStream

\* A return of stream_pod_logs that is reported as a failure.
LogsFinish_as_failure ==
    /\ l_pc = "returned"
    /\ l_events' = l_events \o <<EvErrText, EvError>>
    /\ l_pc' = "done"
    /\ UNCHANGED <<sessionVars, l_pod, l_should_stop, l_entry, l_stop_seen,
                   l_chunks_at_stop, l_chunks_at_flag, l_result, follow>>
    /\ UNCHANGED restOfStream

\* _handle_logs lines 288-289, after stream_pod_logs returned.
LogsFinish ==
    /\ l_pc = "returned"
    /\ l_events' = Append(l_events, EvStopped)
    /\ l_pc' = "done"
    /\ UNCHANGED <<sessionVars, l_pod, l_should_stop, l_entry, l_stop_seen,
                   l_chunks_at_stop, l_chunks_at_flag, l_result, follow>>
    /\ UNCHANGED restOfStream

\* stream_pod_logs lines 211-215 and _handle_logs lines 291-295, after
\* execute_streaming_command raised.
LogsFail ==
    /\ l_pc = "raised"
    /\ l_events' = l_events \o <<EvErrText, EvError>>
    /\ l_pc' = "done"
    /\ UNCHANGED <<sessionVars, l_pod, l_should_stop, l_entry, l_stop_seen,
                   l_chunks_at_stop, l_chunks_at_flag, l_result, follow>>
    /\ UNCHANGED restOfStream

\* ArgoWorker.stop(), called by the owner while the task runs.
LogOwnerStop ==
    /\ l_pc # "done"
    /\ ~l_should_stop
    /\ l_should_stop' = TRUE
    /\ l_chunks_at_flag' = Count(l_events, EvChunk)
    /\ UNCHANGED <<sessionVars, l_pc, l_pod, l_events, l_entry, l_stop_seen,
                   l_chunks_at_stop, l_result, follow>>
    /\ UNCHANGED restOfStream

\* The remote shell writes a chunk (log lines, the echo of ^C, a prompt).
RemoteEmit ==
    /\ sent # <<>>
    /\ shell # 0
    /\ chan_closed = "no"
    /\ produced < MaxChunks
    /\ pending' = pending + 1
    /\ produced' = produced + 1
    /\ UNCHANGED <<connected, shell, client, chan_closed, sent, logVars>>
    /\ UNCHANGED restOfStream

\* The remote side, or the network, closes the channel.
RemoteClose ==
    /\ shell # 0
    /\ chan_closed = "no"
    /\ chan_closed' = "remote"
    /\ UNCHANGED <<connected, shell, client, pending, produced, sent, logVars>>
    /\ UNCHANGED restOfStream

\* SSHConnectionManager.execute_command (lines 211-220), called by the next
\* task once the log task has ended: rejected when not connected; else the
\* command is sent and _wait_for_prompt returns or times out.
FollowUpExecute ==
    /\ l_pc = "done"
    /\ follow = "none"
    /\ IF ~connected
       THEN /\ follow' = "not_connected"
            /\ UNCHANGED <<sent, pending>>
       ELSE IF SendRaises(shell, chan_closed)
       THEN /\ follow' = "send_raised"
            /\ UNCHANGED <<sent, pending>>
       ELSE /\ sent' = Append(sent, CmdGetPods)
            /\ \/ follow' = "returned" /\ pending' = 0
               \/ follow' = "timeout" /\ UNCHANGED pending
    /\ UNCHANGED <<connected, shell, client, chan_closed, produced, l_pc, l_pod,
                   l_should_stop, l_events, l_entry, l_stop_seen, l_chunks_at_stop,
                   l_chunks_at_flag, l_result>>
    /\ UNCHANGED restOfStream

StreamNext ==
    \/ LogsStart
    \/ StreamEnter
    \/ StreamStopCheck
    \/ StreamInterrupt
    \/ StreamDrain
    \/ StreamRead
    \/ LogsFinish
    \/ LogsFail
    \/ LogOwnerStop
    \/ RemoteEmit
    \/ RemoteClose
    \/ FollowUpExecute

InitStream == StreamInit /\ MetricsIdle /\ WindowIdle
    /\ CallIdle /\ PromptIdle /\ SanitizeIdle
    /\ ParseIdle
    /\ FacadeIdle
    /\ TaskIdle

SpecStream == InitStream /\ [][StreamNext]_vars

-----------------------------------------------------------------------------
(***************************************************************************)
(* Claims on the log task (checked under SpecStream)                       *)
(***************************************************************************)

\* C3 (as claimed): once stop_check() has returned true, the call sends
\* one interrupt, passes nothing more to onChunk, drops what it drains, and
\* returns without raising.
C3_StopPathReturnsWithoutRaising ==
    l_stop_seen =>
        /\ l_result # "raised"
        /\ Count(l_events, EvChunk) = l_chunks_at_stop
        /\ (l_result = "stop_path" => Count(sent, CtrlC) = 1)

\* C4 (as claimed): a log task that has ended after its stop flag was seen
\* set has emitted no error event: the banner, chunks, then the 'streaming
\* stopped' text as its last signal.
C4_StoppedTaskEmitsNoError ==
    (l_pc = "done" /\ l_stop_seen) =>
        /\ Count(l_events, EvError) = 0
        /\ Count(l_events, EvErrText) = 0
        /\ l_events[1] = EvBanner
        /\ Last(l_events) = EvStopped
        /\ \A i \in 2..(Len(l_events) - 1) : l_events[i] = EvChunk

\* C5: the stop path of execute_streaming_command changes nothing of the
\* session: when the call has returned through it, connected, channel and
\* transport are those of its entry, connected is set, the channel was not
\* closed by this side, and a following execute_command is not rejected as
\* 'not connected' (it sends its command unless the remote closed the channel).
C5_StopLeavesSessionUnchanged ==
    l_result = "stop_path" =>
        /\ <<connected, shell, client>> = l_entry
        /\ connected /\ shell # 0 /\ client # 0
        /\ chan_closed # "local"
        /\ follow # "not_connected"
        /\ (follow \in {"returned", "timeout"} => Last(sent) = CmdGetPods)
        /\ (follow = "send_raised" => chan_closed = "remote")

\* C5 witness: the stream was stopped, and the next execute_command ran to
\* its prompt on the same channel.
C5_Witness ==
    /\ l_result = "stop_path"
    /\ follow = "returned"
    /\ chan_closed = "no"
    /\ sent = <<CmdLogs, CtrlC, CmdGetPods>>

-----------------------------------------------------------------------------
(***************************************************************************)
(* MainWindow: the owner of the worker threads.  Its handlers run on the   *)
(* GUI thread, one at a time; a handler that calls QThread.wait(2000)      *)
(* keeps the GUI thread until the wait returns, so signals, timers and     *)
(* clicks are served only between handlers.  ui holds the steps the        *)
(* running handler has left; the GUI thread runs them without a break up   *)
(* to the next wait.  Modal message boxes are taken as returning at once,  *)
(* and the remote side stays up: what a closed channel does to a command   *)
(* is the matter of SpecStream.                                            *)
(***************************************************************************)

MaxWorkers  == 2   \* ArgoWorker threads running at a time
MaxManagers == 2   \* SSHConnectionManager objects alive at a time
MaxPending  == 1   \* the user holds off once this many signals and timers wait

WorkerIds  == 1..MaxWorkers
ManagerIds == 1..MaxManagers

\* ArgoWorker.__init__: a thread object.  action "list" is list_all_pods or
\* list_pods, which differ in the text of their command only.
\* pc: "start" (started, run() not entered), "connecting" (in
\* SSHConnectionManager.connect), "cmd" (in execute_command), "stream" (in
\* execute_streaming_command), "sleep" (the metrics poll sleep, which reads
\* the stop flag), "backoff" (a time.sleep of the metrics retry), "finished".
Worker(action, mgr) ==
    [action |-> action, ssh_manager |-> mgr, stop |-> FALSE, pc |-> "start"]

NoWorker ==
    [action |-> "none", ssh_manager |-> 0, stop |-> FALSE, pc |-> "none"]

\* MetricsConnectionWorker, the thread class of _on_connected: run() makes a
\* manager of its own and connects it.  pc is "none" (no such thread yet),
\* "connecting" or "finished".
MetricsConnectionWorker(mgr) ==
    [pc |-> "connecting", ssh_manager |-> mgr, error_msg |-> FALSE]

NoMetricsConnectionWorker == [pc |-> "none", ssh_manager |-> 0, error_msg |-> FALSE]

\* SSHConnectionManager.__init__.  kind tells who made the object: "main"
\* is MainWindow.handle_connect, "metrics" is MetricsConnectionWorker.run.
\* shell is TRUE when self.shell is an open channel; sends is the number of
\* writes made to the channel, modulo 2.
Manager(kind) ==
    [kind |-> kind, connected |-> FALSE, shell |-> FALSE, sends |-> 0]

NoManager == Manager("none")

\* SSHConnectionManager.is_connected
ManagerIsConnected(m) == m # 0 /\ managers[m].connected /\ managers[m].shell

\* SSHConnectionManager._send_command / shell.send: one more write.
Send(mgrs, m) == [mgrs EXCEPT ![m].sends = (@ + 1) % 2]

\* SSHConnectionManager._cleanup
Cleanup(mgrs, m) == [mgrs EXCEPT ![m].shell = FALSE]

\* SSHConnectionManager.disconnect
Disconnect(mgrs, m) ==
    IF mgrs[m].connected
    THEN [Cleanup(mgrs, m) EXCEPT ![m].connected = FALSE]
    ELSE mgrs

\* SSHConnectionManager.connect succeeds: the hops were written to the new
\* channel and connected is set.
Connected(mgrs, m) ==
    Send([mgrs EXCEPT ![m].connected = TRUE, ![m].shell = TRUE], m)

\* QThread.isRunning
Running(ws, w) == w # 0 /\ ws[w].pc \notin {"none", "finished"}

IsRunning(w) == Running(workers, w)

\* QThread.wait(2000) gives up after two seconds.  It can return with the
\* thread still running when the thread is inside something that does not
\* read the stop flag and may last longer: connect (prompt waits of 5, 10
\* and 5 s), execute_command (10 s for a listing, 8 s for kubectl top), or
\* a retry sleep of _handle_metrics (3 s, or 2 to 5 s).  The streaming loop
\* and the poll sleep read the flag every 0.1 s.
CanOutlastWait(w) == IsRunning(w) /\ workers[w].pc \in {"connecting", "cmd", "backoff"}

Min(S) == CHOOSE x \in S : \A y \in S : x <= y

\* Slots for a new thread object, and for a new manager.
FreeWorkers(ws) == {w \in WorkerIds : ws[w].pc = "none"}

FreeManagers == {m \in ManagerIds : managers[m].kind = "none"}

\* The place of object x among the objects refs names, in the order refs
\* names them (0 names none).
RankIn(x, refs) ==
    LET first == Min({i \in 1..Len(refs) : refs[i] = x})
    IN  Cardinality({refs[j] : j \in 1..(first - 1)} \ {0}) + 1

\* Objects have no names in the program.  The state keeps the threads that
\* run and the managers something refers to, numbered in the order in which
\* MainWindow, the MetricsConnectionWorker and the threads refer to them.
\* A field that refers to a finished ArgoWorker is kept as 0: the handlers
\* only ask `self.worker and self.worker.isRunning()`.
Normal(wn, ws, mgrs, mc) ==
    LET live  == {w \in WorkerIds : Running(ws, w)}
        refW  == [w \in 0..MaxWorkers |-> IF w \in live THEN w ELSE 0]
        refsW == <<refW[wn.worker], refW[wn.metrics_worker]>>
                     \o [i \in WorkerIds |-> refW[i]]
        newW  == [w \in 0..MaxWorkers |->
                    IF w \in live THEN RankIn(w, refsW) ELSE 0]
        ws1   == [k \in WorkerIds |->
                    IF \E w \in live : newW[w] = k
                    THEN ws[CHOOSE w \in live : newW[w] = k]
                    ELSE NoWorker]
        refsM == <<wn.ssh_manager, wn.ssh_manager_metrics, mc.ssh_manager>>
                     \o [k \in WorkerIds |-> ws1[k].ssh_manager]
        used  == {refsM[i] : i \in 1..Len(refsM)} \ {0}
        newM  == [m \in 0..MaxManagers |->
                    IF m \in used THEN RankIn(m, refsM) ELSE 0]
    IN  [win      |-> [wn EXCEPT !.worker = newW[@],
                                 !.metrics_worker = newW[@],
                                 !.ssh_manager = newM[@],
                                 !.ssh_manager_metrics = newM[@]],
         workers  |-> [k \in WorkerIds |-> [ws1[k] EXCEPT !.ssh_manager = newM[@]]],
         managers |-> [k \in ManagerIds |->
                         IF \E m \in used : newM[m] = k
                         THEN mgrs[CHOOSE m \in used : newM[m] = k]
                         ELSE NoManager],
         mc       |-> [mc EXCEPT !.ssh_manager = newM[@]]]

\* The state a step of the window or of one of its threads leaves.
CommitAll(wn, u, sg, tm, ws, mgrs, mc) ==
    \E n \in {Normal(wn, ws, mgrs, mc)} :
        /\ win' = n.win
        /\ ui' = u
        /\ signals' = sg
        /\ timers' = tm
        /\ workers' = n.workers
        /\ managers' = n.managers
        /\ metrics_connection_worker' = n.mc
        /\ UNCHANGED restOfWindow

\* The same for a step that leaves the MetricsConnectionWorker alone.
Commit(wn, u, sg, tm, ws, mgrs) ==
    CommitAll(wn, u, sg, tm, ws, mgrs, metrics_connection_worker)

\* MainWindow._set_initial_state
SetInitialState(wn) ==
    [wn EXCEPT !.is_connected = FALSE, !.connect_btn = TRUE,
               !.disconnect_btn = FALSE, !.stop_logs_btn = FALSE,
               !.retry_metrics_btn = FALSE]

\* MainWindow._set_connected_state
SetConnectedState(wn) ==
    [wn EXCEPT !.is_connected = TRUE, !.connect_btn = FALSE,
               !.disconnect_btn = TRUE]

\* MainWindow._set_disconnected_state
SetDisconnectedState(wn) ==
    [SetInitialState(wn) EXCEPT !.pod_list = FALSE,
                                !.current_pod_for_metrics = FALSE]

\* MainWindow.__init__.  search_input and pod_list are enabled exactly
\* when is_connected is set, and Return in search_input calls fetch_pods
\* whatever refresh_btn and fetch_btn show: the two buttons add no way in
\* and are left out.  pod_list tells whether the list has items.
WindowInit ==
    /\ win = SetInitialState(
                [ssh_manager |-> 0, ssh_manager_metrics |-> 0, worker |-> 0,
                 metrics_worker |-> 0,
                 is_connected |-> FALSE, current_pod_for_metrics |-> FALSE,
                 connect_btn |-> FALSE, disconnect_btn |-> FALSE,
                 stop_logs_btn |-> FALSE, retry_metrics_btn |-> FALSE,
                 pod_list |-> FALSE])
    /\ ui = <<>>
    /\ signals = <<>>
    /\ timers = 0
    /\ workers = [w \in WorkerIds |-> NoWorker]
    /\ managers = [m \in ManagerIds |-> NoManager]
    /\ metrics_connection_worker = NoMetricsConnectionWorker

\* The GUI thread is between handlers and the user acts.
UserActs == ui = <<>> /\ Len(signals) + timers < MaxPending

\* ---- the steps of a handler on the GUI thread ----

\* The steps of stop_log_stream and of stop_metrics_monitoring.
stop_log_stream_without_metrics == <<"stop_worker", "sls_end">>

stop_log_stream == <<"stop_worker", "sls_stop_metrics", "sls_end">>

stop_metrics_monitoring == <<"stop_metrics">>

\* The thread stop_metrics_monitoring stops.
MetricsWorkerToStop_worker(wn) == wn.worker

MetricsWorkerToStop(wn) == wn.metrics_worker

\* The manager start_metrics_monitoring hands to the metrics thread.
MetricsTaskSession_main(wn) == wn.ssh_manager

MetricsTaskSession(wn) == wn.ssh_manager_metrics

StopMetricsOps == {"stop_metrics", "sls_stop_metrics"}
WaitMetricsOps == {"wait_metrics", "sls_wait_metrics"}
StopWorkerOps  == {"stop_worker", "stop_running_worker"}
WaitWorkerOps  == {"wait_worker", "wait_running_worker"}
StartOps       == {"logs_start", "list_start", "metrics_start", "disconnect_tail"}

\* The wait that follows a stop.
WaitOf(op) ==
    CASE op = "stop_metrics"        -> "wait_metrics"
      [] op = "sls_stop_metrics"    -> "sls_wait_metrics"
      [] op = "stop_worker"         -> "wait_worker"
      [] op = "stop_running_worker" -> "wait_running_worker"

\* The thread a stop or a wait is about.
StopTarget(wn, op) ==
    IF op \in StopMetricsOps \cup WaitMetricsOps
    THEN MetricsWorkerToStop(wn) ELSE wn.worker

\* What the GUI thread works on, with u left to do.
Gui(u) ==
    [win |-> win, ui |-> u, timers |-> timers, workers |-> workers,
     managers |-> managers]

\* The end of stop_log_stream
StopLogStreamEnd(st) ==
    [st EXCEPT !.win = [@ EXCEPT !.stop_logs_btn = FALSE,
                                 !.current_pod_for_metrics = FALSE,
                                 !.retry_metrics_btn = FALSE]]

\* open_logs after its two stops: the logs thread and the metrics timer
StartLogs(st, w) ==
    [st EXCEPT !.win = [@ EXCEPT !.current_pod_for_metrics = TRUE, !.worker = w,
                                 !.stop_logs_btn = TRUE, !.retry_metrics_btn = TRUE],
               !.timers = @ + 1,
               !.workers = [@ EXCEPT ![w] = Worker("logs", st.win.ssh_manager)]]

\* refresh_pods and fetch_pods after their stop
StartList(st, w) ==
    [st EXCEPT !.win = [@ EXCEPT !.pod_list = FALSE, !.worker = w],
               !.workers = [@ EXCEPT ![w] = Worker("list", st.win.ssh_manager)]]

\* start_metrics_monitoring after its stop: the metrics thread
StartMetrics(st, w) ==
    [st EXCEPT !.win = [@ EXCEPT !.metrics_worker = w],
               !.workers = [@ EXCEPT ![w] = Worker("metrics", MetricsTaskSession(st.win))]]

\* handle_disconnect after its stops: the metrics manager is disconnected on
\* the GUI thread, the main one by a disconnect thread
DisconnectTail(st, w) ==
    LET mm == st.win.ssh_manager_metrics
    IN  [st EXCEPT !.win = [@ EXCEPT !.ssh_manager_metrics = 0, !.worker = w,
                                     !.disconnect_btn = FALSE],
                   !.managers = IF mm # 0 THEN Disconnect(@, mm) ELSE @,
                   !.workers = [@ EXCEPT ![w] = Worker("disconnect", st.win.ssh_manager)]]

Start(st, op, w) ==
    CASE op = "logs_start"      -> StartLogs(st, w)
      [] op = "list_start"      -> StartList(st, w)
      [] op = "metrics_start"   -> StartMetrics(st, w)
      [] op = "disconnect_tail" -> DisconnectTail(st, w)

\* The GUI thread runs the steps of st.ui up to a wait(2000) for a running
\* thread.  `if w and w.isRunning(): w.stop(); w.wait(2000)` sets the stop
\* flag of w (ArgoWorker.stop) and waits; a start that finds no slot of the
\* model free is held back.
RECURSIVE Run(_)
Run(st) ==
    IF st.ui = <<>> THEN st
    ELSE LET op   == Head(st.ui)
             next == [st EXCEPT !.ui = Tail(st.ui)]
             t    == StopTarget(st.win, op)
             free == FreeWorkers(st.workers)
         IN  CASE op \in StopWorkerOps \cup StopMetricsOps ->
                    IF Running(st.workers, t)
                    THEN [st EXCEPT !.workers[t].stop = TRUE,
                                    !.ui = <<WaitOf(op)>> \o Tail(st.ui)]
                    ELSE Run(next)
               [] op \in WaitWorkerOps \cup WaitMetricsOps -> st
               [] op = "sls_end" -> Run(StopLogStreamEnd(next))
               [] op = "retry_timer" -> Run([next EXCEPT !.timers = @ + 1])
               [] op \in StartOps ->
                    IF free = {} THEN st ELSE Run(Start(next, op, Min(free)))

\* The GUI thread goes on from st0.
CommitGui(st0) ==
    \E st \in {Run(st0)} :
        Commit(st.win, st.ui, signals, st.timers, st.workers, st.managers)

\* ---- handlers of user input ----

\* MainWindow.handle_connect (connect_btn)
HandleConnect ==
    /\ UserActs
    /\ win.connect_btn
    /\ FreeWorkers(workers) # {}
    /\ win.ssh_manager = 0 => FreeManagers # {}
    /\ LET m    == IF win.ssh_manager = 0 THEN Min(FreeManagers) ELSE win.ssh_manager
           mgrs == IF win.ssh_manager = 0
                   THEN [managers EXCEPT ![m] = Manager("main")]
                   ELSE managers
           w    == Min(FreeWorkers(workers))
       IN  Commit([win EXCEPT !.ssh_manager = m, !.worker = w, !.connect_btn = FALSE],
                  ui, signals, timers,
                  [workers EXCEPT ![w] = Worker("connect", m)], mgrs)

\* MainWindow.handle_disconnect (disconnect_btn)
HandleDisconnect ==
    /\ UserActs
    /\ win.disconnect_btn
    /\ CommitGui(Gui(stop_log_stream \o stop_metrics_monitoring
                            \o <<"disconnect_tail">>))

\* MainWindow.refresh_pods (refresh_btn, or fetch_pods with an empty keyword)
RefreshPods ==
    /\ UserActs
    /\ win.is_connected
    /\ CommitGui(Gui(<<"stop_running_worker", "list_start">>))

\* MainWindow.fetch_pods with a keyword (fetch_btn, or Return in search_input)
FetchPods ==
    /\ UserActs
    /\ win.is_connected
    /\ CommitGui(Gui(<<"stop_running_worker", "list_start">>))

\* MainWindow.open_logs (double click on an item of pod_list)
OpenLogs ==
    /\ UserActs
    /\ win.is_connected /\ win.pod_list
    /\ CommitGui(Gui(stop_log_stream \o stop_metrics_monitoring
                            \o <<"logs_start">>))

\* MainWindow.stop_log_stream (stop_logs_btn)
StopLogStream ==
    /\ UserActs
    /\ win.stop_logs_btn
    /\ CommitGui(Gui(stop_log_stream))

\* MainWindow.retry_metrics (retry_metrics_btn)
RetryMetrics ==
    /\ UserActs
    /\ win.retry_metrics_btn
    /\ win.current_pod_for_metrics
    /\ CommitGui(Gui(stop_metrics_monitoring \o <<"retry_timer">>))

\* MainWindow.start_metrics_monitoring, called by a QTimer.singleShot
StartMetricsMonitoring ==
    /\ ui = <<>>
    /\ timers > 0
    /\ LET go == /\ win.current_pod_for_metrics
                 /\ ManagerIsConnected(win.ssh_manager_metrics)
           st == Gui(IF go THEN stop_metrics_monitoring \o <<"metrics_start">>
                     ELSE <<>>)
       IN  CommitGui([st EXCEPT !.timers = @ - 1])

\* self.worker.wait(2000) returns; in refresh_pods and fetch_pods
\* stop_logs_btn.setEnabled(False) follows it
UiWaitWorker ==
    /\ ui # <<>>
    /\ Head(ui) \in WaitWorkerOps
    /\ ~IsRunning(win.worker) \/ CanOutlastWait(win.worker)
    /\ LET st == Gui(Tail(ui))
       IN  CommitGui(IF Head(ui) = "wait_running_worker"
                         THEN [st EXCEPT !.win = [@ EXCEPT !.stop_logs_btn = FALSE]]
                         ELSE st)

\* self.metrics_worker.wait(2000) of stop_metrics_monitoring returns
UiWaitMetrics ==
    /\ ui # <<>>
    /\ Head(ui) \in WaitMetricsOps
    /\ LET t == StopTarget(win, Head(ui))
       IN  ~IsRunning(t) \/ CanOutlastWait(t)
    /\ CommitGui(Gui(Tail(ui)))

\* A start that was held back goes on
UiStart ==
    /\ ui # <<>>
    /\ Head(ui) \in StartOps
    /\ FreeWorkers(workers) # {}
    /\ CommitGui(Gui(ui))

\* ---- slots of the signals of the threads ----

\* MainWindow._on_connected: also starts a MetricsConnectionWorker, whose
\* run() makes the manager it connects.  One such thread is followed at a
\* time: the slot is served once the one of the connection before has
\* finished.
OnConnected ==
    /\ ui = <<>>
    /\ signals # <<>> /\ Head(signals) = "connected"
    /\ metrics_connection_worker.pc \in {"none", "finished"}
    /\ FreeManagers # {}
    /\ LET m == Min(FreeManagers)
       IN  CommitAll(SetConnectedState(win), ui, Tail(signals), timers, workers,
                     [managers EXCEPT ![m] = Manager("metrics")],
                     MetricsConnectionWorker(m))

\* on_metrics_connection_complete, the slot of MetricsConnectionWorker.finished.
\* Nothing reads the fields of the thread after it.
OnMetricsConnectionComplete ==
    /\ ui = <<>>
    /\ signals # <<>> /\ Head(signals) = "metrics_connection_finished"
    /\ LET mc == metrics_connection_worker
       IN  CommitAll(IF ~mc.error_msg /\ mc.ssh_manager # 0
                     THEN [win EXCEPT !.ssh_manager_metrics = mc.ssh_manager]
                     ELSE win,
                     ui, Tail(signals), timers, workers, managers,
                     [mc EXCEPT !.ssh_manager = 0, !.error_msg = FALSE])

\* MainWindow._on_disconnected
OnDisconnected ==
    /\ ui = <<>>
    /\ signals # <<>> /\ Head(signals) = "disconnected"
    /\ Commit([SetDisconnectedState(win) EXCEPT !.ssh_manager = 0],
              ui, Tail(signals), timers, workers, managers)

\* MainWindow._on_pods_received with a list that is not empty; with an
\* empty one it changes nothing a handler reads, and that signal is left out
OnPodsReceived ==
    /\ ui = <<>>
    /\ signals # <<>> /\ Head(signals) = "pods"
    /\ Commit([win EXCEPT !.pod_list = TRUE],
              ui, Tail(signals), timers, workers, managers)

\* MainWindow._on_error
OnError ==
    /\ ui = <<>>
    /\ signals # <<>> /\ Head(signals) = "error"
    /\ Commit([win EXCEPT !.connect_btn = ~win.is_connected],
              ui, Tail(signals), timers, workers, managers)

\* ---- the threads ----

\* run() returns
Finished(w) == [workers EXCEPT ![w].pc = "finished"]

\* ArgoWorker._handle_connect up to SSHConnectionManager.connect
WorkerConnect(w) ==
    /\ workers[w].action = "connect" /\ workers[w].pc = "start"
    /\ IF ManagerIsConnected(workers[w].ssh_manager)
       THEN Commit(win, ui, Append(signals, "connected"), timers, Finished(w), managers)
       ELSE Commit(win, ui, signals, timers,
                   [workers EXCEPT ![w].pc = "connecting"], managers)

\* SSHConnectionManager.connect returns or raises in _handle_connect, which
\* then goes on to list_all_pods
WorkerConnected(w) ==
    /\ workers[w].action = "connect" /\ workers[w].pc = "connecting"
    /\ LET m == workers[w].ssh_manager
       IN  \E ok \in BOOLEAN :
            IF ok
            THEN Commit(win, ui, signals, timers,
                        [workers EXCEPT ![w].pc = "cmd"],
                        Send(Connected(managers, m), m))
            ELSE Commit(win, ui, Append(signals, "error"), timers,
                        Finished(w), Cleanup(managers, m))

\* SSHConnectionManager.connect returns or raises in MetricsConnectionWorker.run
MetricsConnectionDone ==
    /\ metrics_connection_worker.pc = "connecting"
    /\ LET m == metrics_connection_worker.ssh_manager
       IN  \E ok \in BOOLEAN :
            CommitAll(win, ui, Append(signals, "metrics_connection_finished"),
                      timers, workers,
                      IF ok THEN Connected(managers, m) ELSE Cleanup(managers, m),
                      [metrics_connection_worker EXCEPT !.pc = "finished",
                                                        !.error_msg = ~ok])

\* ArgoWorker._handle_list_all_pods / _handle_list_pods up to execute_command
WorkerList(w) ==
    /\ workers[w].action = "list" /\ workers[w].pc = "start"
    /\ IF ManagerIsConnected(workers[w].ssh_manager)
       THEN Commit(win, ui, signals, timers, [workers EXCEPT ![w].pc = "cmd"],
                   Send(managers, workers[w].ssh_manager))
       ELSE Commit(win, ui, Append(signals, "error"), timers, Finished(w), managers)

\* execute_command returns or raises in a connect or list thread.
\* _handle_connect emits connected whatever the listing gave.
WorkerListed(w) ==
    /\ workers[w].action \in {"connect", "list"}
    /\ workers[w].pc = "cmd"
    /\ \E r \in {"pods", "no_pods", "raised"} :
        LET out == IF r = "pods" THEN <<"pods">>
                   ELSE IF r = "raised" /\ workers[w].action = "list" THEN <<"error">>
                   ELSE <<>>
            end == IF workers[w].action = "connect" THEN <<"connected">> ELSE <<>>
        IN  Commit(win, ui, signals \o out \o end, timers, Finished(w), managers)

\* ArgoWorker._handle_logs up to the loop of execute_streaming_command
WorkerLogs(w) ==
    /\ workers[w].action = "logs" /\ workers[w].pc = "start"
    /\ IF ManagerIsConnected(workers[w].ssh_manager)
       THEN Commit(win, ui, signals, timers, [workers EXCEPT ![w].pc = "stream"],
                   Send(managers, workers[w].ssh_manager))
       ELSE Commit(win, ui, Append(signals, "error"), timers, Finished(w), managers)

\* The loop of execute_streaming_command sees the stop flag and sends Ctrl+C
WorkerLogsStopped(w) ==
    /\ workers[w].action = "logs" /\ workers[w].pc = "stream"
    /\ workers[w].stop
    /\ IF managers[workers[w].ssh_manager].shell
       THEN Commit(win, ui, signals, timers, Finished(w),
                   Send(managers, workers[w].ssh_manager))
       ELSE Commit(win, ui, Append(signals, "error"), timers, Finished(w), managers)

\* The loop of execute_streaming_command ends on a read that raises
WorkerLogsBroke(w) ==
    /\ workers[w].action = "logs" /\ workers[w].pc = "stream"
    /\ Commit(win, ui, signals, timers, Finished(w), managers)

\* One turn of the loop of _handle_metrics: the flag, then get_pod_metrics.
\* The error signal of a metrics thread goes to _on_metrics_error, which
\* changes no field a handler reads.
MetricsTurn(w) ==
    LET m == workers[w].ssh_manager
    IN  IF workers[w].stop
        THEN Commit(win, ui, signals, timers, Finished(w), managers)
        ELSE IF ManagerIsConnected(m)
        THEN Commit(win, ui, signals, timers, [workers EXCEPT ![w].pc = "cmd"],
                    Send(managers, m))
        ELSE \E more \in BOOLEAN :
                Commit(win, ui, signals, timers,
                       IF more THEN [workers EXCEPT ![w].pc = "backoff"]
                       ELSE Finished(w),
                       managers)

\* ArgoWorker._handle_metrics up to its first fetch
WorkerMetrics(w) ==
    /\ workers[w].action = "metrics" /\ workers[w].pc = "start"
    /\ IF ManagerIsConnected(workers[w].ssh_manager)
       THEN MetricsTurn(w)
       ELSE Commit(win, ui, signals, timers, Finished(w), managers)

\* execute_command returns or raises in a metrics thread: the value is
\* shown and the poll sleep starts, or the failure is retried after a
\* sleep, or it ends the thread
WorkerMetricsFetched(w) ==
    /\ workers[w].action = "metrics" /\ workers[w].pc = "cmd"
    /\ \E r \in {"sleep", "backoff", "finished"} :
        Commit(win, ui, signals, timers, [workers EXCEPT ![w].pc = r], managers)

\* A sleep of _handle_metrics ends
WorkerMetricsSlept(w) ==
    /\ workers[w].action = "metrics" /\ workers[w].pc \in {"sleep", "backoff"}
    /\ MetricsTurn(w)

\* ArgoWorker._handle_disconnect
WorkerDisconnect(w) ==
    /\ workers[w].action = "disconnect" /\ workers[w].pc = "start"
    /\ LET m == workers[w].ssh_manager
       IN  Commit(win, ui, Append(signals, "disconnected"), timers, Finished(w),
                  IF m # 0 THEN Disconnect(managers, m) ELSE managers)

WindowNext ==
    \/ HandleConnect
    \/ HandleDisconnect
    \/ RefreshPods
    \/ FetchPods
    \/ OpenLogs
    \/ StopLogStream
    \/ RetryMetrics
    \/ StartMetricsMonitoring
    \/ UiWaitWorker
    \/ UiWaitMetrics
    \/ UiStart
    \/ OnConnected
    \/ OnMetricsConnectionComplete
    \/ OnDisconnected
    \/ OnPodsReceived
    \/ OnError
    \/ MetricsConnectionDone
    \/ \E w \in WorkerIds : WorkerConnect(w)
    \/ \E w \in WorkerIds : WorkerConnected(w)
    \/ \E w \in WorkerIds : WorkerList(w)
    \/ \E w \in WorkerIds : WorkerListed(w)
    \/ \E w \in WorkerIds : WorkerLogs(w)
    \/ \E w \in WorkerIds : WorkerLogsStopped(w)
    \/ \E w \in WorkerIds : WorkerLogsBroke(w)
    \/ \E w \in WorkerIds : WorkerMetrics(w)
    \/ \E w \in WorkerIds : WorkerMetricsFetched(w)
    \/ \E w \in WorkerIds : WorkerMetricsSlept(w)
    \/ \E w \in WorkerIds : WorkerDisconnect(w)

Init == WindowInit /\ MetricsIdle /\ SessionIdle /\ LogIdle
    /\ CallIdle /\ PromptIdle /\ SanitizeIdle
    /\ ParseIdle
    /\ FacadeIdle
    /\ TaskIdle

Spec == Init /\ [][WindowNext]_vars

-----------------------------------------------------------------------------
(***************************************************************************)
(* Properties of the window and its threads, checked under Spec.           *)
(***************************************************************************)

\* The threads that are inside execute_command or execute_streaming_command
\* of manager m.
InCommand(m) ==
    {w \in WorkerIds : workers[w].ssh_manager = m /\ workers[w].pc \in {"cmd", "stream"}}

\* The threads of action a that have not finished.
Tasks(ws, a) == {w \in WorkerIds : ws[w].action = a /\ Running(ws, w)}

\* What can be seen of the log tasks: where each is, its stop flag, and the
\* channel of its manager with the number of writes made to it.
LogTasks(ws, mgrs) ==
    {<<ws[w].pc, ws[w].stop,
       IF ws[w].ssh_manager = 0 THEN NoManager ELSE mgrs[ws[w].ssh_manager]>> :
        w \in Tasks(ws, "logs")}

\* What can be seen of the metrics tasks: where each is, and its stop flag.
MetricsTasks(ws) ==
    {<<ws[w].pc, ws[w].stop>> : w \in Tasks(ws, "metrics")}

\* The GUI thread has, in this step, set a stop flag and begun the wait op.
ArrivesAt(waits) ==
    /\ ui' # ui
    /\ ui' # <<>>
    /\ Head(ui') \in waits

\* C1: for every manager, at most one thread is inside execute_command or
\* execute_streaming_command of it at any time, whatever the order of the
\* handlers and also when a wait(2000) for a stopping thread gives up.
C1_OneForegroundCommandPerSession ==
    \A m \in ManagerIds : Cardinality(InCommand(m)) <= 1

\* C2: a metrics thread is bound only to a manager made by the
\* MetricsConnectionWorker, which no connect, list, logs or disconnect
\* thread uses and which is not MainWindow.ssh_manager; and a metrics thread
\* is started only in a step before which ssh_manager_metrics exists and
\* is_connected() holds of it.
C2_MetricsBoundToMetricsSession ==
    \A w \in WorkerIds :
        workers[w].action = "metrics" =>
            /\ workers[w].ssh_manager # 0
            /\ managers[workers[w].ssh_manager].kind = "metrics"
            /\ workers[w].ssh_manager # win.ssh_manager
            /\ \A v \in WorkerIds :
                 workers[v].action \notin {"metrics", "none"} =>
                     workers[v].ssh_manager # workers[w].ssh_manager

C2_StartedOnlyWhenConnected ==
    (\E w \in WorkerIds : workers'[w].action = "metrics" /\ workers'[w].pc = "start"
                          /\ Cardinality(Tasks(workers', "metrics"))
                               > Cardinality(Tasks(workers, "metrics")))
        => /\ win.ssh_manager_metrics # 0
           /\ ManagerIsConnected(win.ssh_manager_metrics)
           /\ win'.metrics_worker # 0
           /\ workers'[win'.metrics_worker].ssh_manager = win'.ssh_manager_metrics

C2_MetricsOnlyOnMetricsSession ==
    [](C2_MetricsBoundToMetricsSession) /\ [][C2_StartedOnlyWhenConnected]_vars

\* C2 witness: a metrics thread is inside kubectl top on the metrics manager
\* while a logs thread streams on the main one.
C2_Witness ==
    \E w, v \in WorkerIds :
        /\ workers[w].action = "metrics" /\ workers[w].pc = "cmd"
        /\ workers[w].ssh_manager = win.ssh_manager_metrics
        /\ workers[v].action = "logs" /\ workers[v].pc = "stream"
        /\ workers[v].ssh_manager = win.ssh_manager
        /\ win.ssh_manager # win.ssh_manager_metrics

\* C6: the step in which stop_metrics_monitoring sets the stop flag of the
\* metrics thread and begins to wait for it leaves every log task as it
\* was: its stop flag, its place in the streaming loop, and the channel of
\* its manager, to which nothing is written.
C6_StopMetricsLeavesLogStream ==
    [][ArrivesAt(WaitMetricsOps) =>
          LogTasks(workers', managers') = LogTasks(workers, managers)]_vars

\* C6 witness: the GUI thread waits in stop_metrics_monitoring for the
\* metrics thread it has told to stop, and the logs thread is in its
\* streaming loop with its stop flag unset.
C6_Witness ==
    /\ ui # <<>> /\ Head(ui) = "wait_metrics"
    /\ win.metrics_worker # 0
    /\ workers[win.metrics_worker].action = "metrics"
    /\ workers[win.metrics_worker].stop
    /\ win.worker # 0
    /\ workers[win.worker].action = "logs"
    /\ workers[win.worker].pc = "stream"
    /\ ~workers[win.worker].stop

\* C7 as stated: a step of stop_log_stream, up to either of its waits,
\* leaves every metrics task as it was, its stop flag unset.
C7_StopLogStreamLeavesMetrics ==
    [][ArrivesAt({"wait_worker", "sls_wait_metrics"}) =>
          MetricsTasks(workers') = MetricsTasks(workers)]_vars

\* The GUI thread has, in this step, gone past the end of stop_log_stream
\* after one of its waits.
PassesStopLogStreamEnd ==
    /\ \E i \in 1..Len(ui) : ui[i] = "sls_end"
    /\ \A i \in 1..Len(ui') : ui'[i] # "sls_end"

\* C7 as the code has it: stop_log_stream stops the metrics polling too.
\* It calls stop_metrics_monitoring, which sets the stop flag of the running
\* metrics thread and waits up to two seconds for it: when the GUI thread
\* begins that wait, and when stop_log_stream returns after a wait, every
\* metrics thread that still runs has its stop flag set.
C7_StopLogStreamStopsMetrics ==
    [][(ArrivesAt({"sls_wait_metrics"}) \/ PassesStopLogStreamEnd) =>
          \A w \in Tasks(workers', "metrics") : workers'[w].stop]_vars

\* C7 witness: the GUI thread is in stop_log_stream, waiting for the metrics
\* thread it has told to stop, which is inside kubectl top.
C7_Witness ==
    /\ ui # <<>> /\ Head(ui) = "sls_wait_metrics"
    /\ win.metrics_worker # 0
    /\ workers[win.metrics_worker].action = "metrics"
    /\ workers[win.metrics_worker].pc = "cmd"
    /\ workers[win.metrics_worker].stop

-----------------------------------------------------------------------------
(***************************************************************************)
(* SSHConnectionManager, call by call.  One caller makes the calls one     *)
(* after the other; the remote side can fail at every step of connect, can *)
(* keep a command from reaching its prompt, and can close the channel at   *)
(* any moment.  s_calls keeps, for every call that has ended, what the     *)
(* session was before and after it.                                        *)
(***************************************************************************)

MaxCalls == 3   \* calls made on the session in one behaviour

CmdSshHop == "ssh <internal-host>"
CmdSudo   == "sudo su - <service-account>"
CmdTop    == "kubectl top pod <pod> -n <namespace> --no-headers"

\* The calls: the methods of the manager, and the worker tasks that use it.
SessionCalls == {"connect", "disconnect", "execute_command",
                 "execute_streaming_command", "list", "logs", "metrics"}

TaskCalls == {"list", "logs", "metrics"}

\* What the caller gets back.
Returned          == [kind |-> "returned", at |-> "", exc |-> ""]
Raised(at, exc)   == [kind |-> "raised", at |-> at, exc |-> exc]
NotConnectedError == Raised("connected", "RuntimeError: Not connected. Call connect() first.")
TaskNotConnected  == Raised("is_connected", "RuntimeError: Not connected. Please connect first.")

\* The fields of the manager.
Session == [connected |-> connected, shell |-> shell, client |-> client]

\* What a call can change, seen from outside: the fields, the state of the
\* channel, and the counts of what was sent, printed, opened and emitted.
View ==
    [session |-> Session, closed |-> chan_closed, sent |-> Len(sent),
     output |-> s_output, opened |-> s_opened, events |-> s_events]

\* connect line 56: `if self.connected: return`
AlreadyConnected_is_connected(conn, sh, closed) == is_connected(conn, sh, closed)

AlreadyConnected(conn, sh, closed) == conn

\* execute_command line 211, execute_streaming_command line 239:
\* `if not self.connected: raise RuntimeError(...)`
ExecuteAccepts_unchecked(conn) == TRUE

ExecuteAccepts(conn) == conn

CleanupSession_shell_only(sess) == [sess EXCEPT !.shell = 0]

\* SSHConnectionManager._cleanup: both handles are closed and set to None.
CleanupSession(sess) == [sess EXCEPT !.shell = 0, !.client = 0]

\* The except clauses of connect: each calls self._cleanup() and raises.
ConnectFailed_leak(sess) == sess

ConnectFailed(sess) == CleanupSession(sess)

\* SSHConnectionManager.disconnect
DisconnectSession_flag_only(sess) == [sess EXCEPT !.connected = FALSE]

DisconnectSession(sess) ==
    IF ~sess.connected THEN sess
    ELSE [CleanupSession(sess) EXCEPT !.connected = FALSE]

\* The fields after execute_command or execute_streaming_command met an
\* exception of the channel: _wait_for_prompt logs and re-raises (342-344),
\* the streaming loop logs and breaks (279-281); no field is assigned.
IoErrorSession(sess) == sess

\* The session fields become sess; a channel that is gone is not a closed one.
SetSession(sess) ==
    /\ connected' = sess.connected
    /\ shell' = sess.shell
    /\ client' = sess.client

\* The call in progress ends with result r.
EndCall(r) ==
    /\ s_pc' = "idle"
    /\ s_result' = r
    /\ s_calls' = Append(s_calls, [call |-> s_call', result |-> r,
                                   before |-> s_before', after |-> View'])

SessionInit ==
    /\ SessionIdle
    /\ CallIdle

\* A call begins when none is in progress.
CanCall == s_pc = "idle" /\ Len(s_calls) < MaxCalls

\* connect() up to the try: a no-op with a warning when already connected
CallConnect ==
    /\ CanCall
    /\ s_call' = "connect"
    /\ s_before' = View
    /\ IF AlreadyConnected(connected, shell, chan_closed)
       THEN /\ UNCHANGED <<connected, shell, client, chan_closed, sent,
                           s_output, s_opened, s_events, s_prompts>>
            /\ EndCall(Returned)
       ELSE /\ s_output' = s_output + 1
            /\ s_pc' = "open"
            /\ s_prompts' = 0
            /\ UNCHANGED <<connected, shell, client, chan_closed, sent,
                           s_opened, s_events, s_result, s_calls>>
    /\ UNCHANGED restOfSession

\* A step of connect fails: the except clause cleans up and raises.
FailConnect(at, exc) ==
    /\ SetSession(ConnectFailed(Session))
    /\ chan_closed' = IF ConnectFailed(Session).shell = 0 THEN "no" ELSE chan_closed
    /\ UNCHANGED <<sent, s_output, s_events, s_call, s_before, s_prompts>>
    /\ EndCall(Raised(at, exc))

\* connect lines 65-134: the configuration is read, an SSHClient is made and
\* connected to the jump host
ConnectOpen ==
    /\ s_pc = "open"
    /\ \/ /\ UNCHANGED s_opened   \* reading the configuration raised
          /\ FailConnect("open", "RuntimeError: Connection failed")
       \/ /\ s_opened' = s_opened + 1
          /\ \E exc \in {"", "AuthenticationException", "SSHException",
                         "RuntimeError: Connection failed"} :
              IF exc = ""
              THEN /\ client' = s_opened'
                   /\ s_output' = s_output + 2
                   /\ s_pc' = "shell"
                   /\ UNCHANGED <<connected, shell, chan_closed, sent, s_events,
                                  s_call, s_result, s_calls, s_before, s_prompts>>
              ELSE \* self.client was assigned at line 83, before the failure
                   /\ SetSession(ConnectFailed([Session EXCEPT !.client = s_opened']))
                   /\ UNCHANGED <<chan_closed, sent, s_output, s_events, s_call,
                                  s_before, s_prompts>>
                   /\ EndCall(Raised("open", exc))
    /\ UNCHANGED restOfSession

\* connect lines 138-139: invoke_shell
ConnectShell ==
    /\ s_pc = "shell"
    /\ \/ /\ shell' = client
          /\ chan_closed' = "no"
          /\ s_pc' = "prompt"
          /\ UNCHANGED <<connected, client, sent, s_output, s_opened, s_events,
                         s_call, s_result, s_calls, s_before, s_prompts>>
       \/ /\ UNCHANGED s_opened
          /\ FailConnect("shell", "SSHException")
    /\ UNCHANGED restOfSession

\* connect lines 143-164: what follows the detection of the prompt a step
\* waits for: the command sent next, the texts printed, and whether
\* `self.connected = True` is reached.
AfterPrompt_ready_at_sudo_sent(step) ==
    CASE step = "prompt" -> [send |-> CmdSshHop, output |-> 1, pc |-> "hop", ready |-> FALSE]
      [] step = "hop"    -> [send |-> CmdSudo, output |-> 2, pc |-> "idle", ready |-> TRUE]
      [] step = "sudo"   -> [send |-> "", output |-> 2, pc |-> "idle", ready |-> TRUE]

AfterPrompt(step) ==
    CASE step = "prompt" -> [send |-> CmdSshHop, output |-> 1, pc |-> "hop", ready |-> FALSE]
      [] step = "hop"    -> [send |-> CmdSudo, output |-> 2, pc |-> "sudo", ready |-> FALSE]
      [] step = "sudo"   -> [send |-> "", output |-> 2, pc |-> "idle", ready |-> TRUE]

\* _wait_for_prompt returns in step `step` of connect, and connect goes on.
PromptArrived(step) ==
    /\ ~SendRaises(shell, chan_closed)
    /\ s_prompts' = s_prompts + 1
    /\ \E nxt \in {AfterPrompt(step)} :
         /\ sent' = IF nxt.send = "" THEN sent ELSE Append(sent, nxt.send)
         /\ s_output' = s_output + nxt.output
         /\ connected' = (connected \/ nxt.ready)
         /\ UNCHANGED <<shell, client, chan_closed, s_opened, s_events, s_call,
                        s_before>>
         /\ IF nxt.ready
            THEN EndCall(Returned)
            ELSE /\ s_pc' = nxt.pc
                 /\ UNCHANGED <<s_result, s_calls>>

\* connect lines 143-150: the first prompt arrives, and `ssh <internal-host>`
\* is sent
ConnectPrompt ==
    /\ s_pc = "prompt"
    /\ \/ PromptArrived("prompt")
       \/ /\ UNCHANGED s_opened
          /\ FailConnect("prompt", "RuntimeError: Connection failed")
    /\ UNCHANGED restOfSession

\* connect lines 151-159: the prompt of the internal host arrives, and
\* `sudo su - <service-account>` is sent
ConnectHop ==
    /\ s_pc = "hop"
    /\ \/ PromptArrived("hop")
       \/ /\ UNCHANGED s_opened
          /\ FailConnect("hop", "RuntimeError: Connection failed")
    /\ UNCHANGED restOfSession

\* connect lines 160-166: the prompt of the service account arrives
ConnectSudo ==
    /\ s_pc = "sudo"
    /\ \/ PromptArrived("sudo")
       \/ /\ UNCHANGED s_opened
          /\ FailConnect("sudo", "RuntimeError: Connection failed")
    /\ UNCHANGED restOfSession

\* SSHConnectionManager.disconnect
CallDisconnect ==
    /\ CanCall
    /\ s_call' = "disconnect"
    /\ s_before' = View
    /\ UNCHANGED s_prompts
    /\ SetSession(DisconnectSession(Session))
    /\ chan_closed' = IF DisconnectSession(Session).shell = 0 THEN "no" ELSE chan_closed
    /\ s_output' = IF connected THEN s_output + 2 ELSE s_output
    /\ UNCHANGED <<sent, s_opened, s_events>>
    /\ EndCall(Returned)
    /\ UNCHANGED restOfSession

\* The command of a call.
CommandOf(call) ==
    CASE call \in {"execute_command", "list"}           -> CmdGetPods
      [] call = "metrics"                               -> CmdTop
      [] call \in {"execute_streaming_command", "logs"} -> CmdLogs

\* execute_command and execute_streaming_command up to _send_command
CallExecute(call) ==
    /\ CanCall
    /\ s_call' = call
    /\ s_before' = View
    /\ UNCHANGED s_prompts
    /\ UNCHANGED <<connected, shell, client, chan_closed, s_output, s_opened,
                   s_events>>
    /\ IF ~ExecuteAccepts(connected)
       THEN /\ UNCHANGED sent
            /\ EndCall(NotConnectedError)
       ELSE IF SendRaises(shell, chan_closed)
       THEN /\ UNCHANGED sent
            /\ EndCall(Raised("send", "OSError: Socket is closed"))
       ELSE /\ sent' = Append(sent, CommandOf(call))
            /\ s_pc' = IF call = "execute_command" THEN "wait" ELSE "stream"
            /\ UNCHANGED <<s_result, s_calls>>
    /\ UNCHANGED restOfSession

\* ArgoWorker._handle_list_all_pods / _handle_list_pods, _handle_logs and
\* _handle_metrics up to the command: the task raises when the manager is not
\* is_connected(), and its except clause emits the error signal
CallTask(call) ==
    /\ CanCall
    /\ s_call' = call
    /\ s_before' = View
    /\ UNCHANGED s_prompts
    /\ UNCHANGED <<connected, shell, client, chan_closed, s_output, s_opened>>
    /\ IF ~is_connected(connected, shell, chan_closed)
       THEN /\ s_events' = s_events + 1
            /\ UNCHANGED sent
            /\ EndCall(TaskNotConnected)
       ELSE /\ sent' = Append(sent, CommandOf(call))
            /\ s_pc' = IF call = "logs" THEN "stream" ELSE "wait"
            /\ UNCHANGED <<s_events, s_result, s_calls>>
    /\ UNCHANGED restOfSession

\* The signal a task emits when its command raised.  A metrics task that is
\* past its start counts the failure and retries (see SpecMetrics).
EventsAfter(call, r) ==
    IF call \in {"list", "logs"} /\ r.kind = "raised" THEN s_events + 1 ELSE s_events

\* _wait_for_prompt of execute_command returns the buffer, or gives up at the
\* timeout, or the channel raises
ExecuteWait ==
    /\ s_pc = "wait"
    /\ \E r \in {"returned", "timeout", "io"} :
        /\ r = "returned" => chan_closed = "no"
        /\ LET res == CASE r = "returned" -> Returned
                        [] r = "timeout"  -> Raised("wait", "RuntimeError: Timeout waiting for shell prompt")
                        [] r = "io"       -> Raised("wait", "OSError")
           IN  /\ SetSession(IF r = "io" THEN IoErrorSession(Session) ELSE Session)
               /\ chan_closed' = IF r = "io" THEN "remote" ELSE chan_closed
               /\ s_events' = EventsAfter(s_call, res)
               /\ UNCHANGED <<sent, s_output, s_opened, s_call, s_before, s_prompts>>
               /\ EndCall(res)
    /\ UNCHANGED restOfSession

\* The loop of execute_streaming_command ends: by the stop path, whose
\* Ctrl+C is sent or raises, or by a read that raises
StreamEnds ==
    /\ s_pc = "stream"
    /\ \E r \in {"stop_path", "read_break"} :
        IF r = "stop_path"
        THEN /\ UNCHANGED <<connected, shell, client, chan_closed>>
             /\ IF SendRaises(shell, chan_closed)
                THEN /\ UNCHANGED sent
                     /\ s_events' = EventsAfter(s_call, Raised("send", ""))
                     /\ UNCHANGED <<s_output, s_opened, s_call, s_before, s_prompts>>
                     /\ EndCall(Raised("send", "OSError: Socket is closed"))
                ELSE /\ sent' = Append(sent, CtrlC)
                     /\ UNCHANGED <<s_output, s_opened, s_events, s_call, s_before, s_prompts>>
                     /\ EndCall(Returned)
        ELSE /\ SetSession(IoErrorSession(Session))
             /\ chan_closed' = "remote"
             /\ UNCHANGED <<sent, s_output, s_opened, s_events, s_call, s_before, s_prompts>>
             /\ EndCall([kind |-> "returned", at |-> "read", exc |-> "OSError"])
    /\ UNCHANGED restOfSession

\* The remote side, or the network, closes the channel.
SessionRemoteClose ==
    /\ shell # 0
    /\ chan_closed = "no"
    /\ chan_closed' = "remote"
    /\ UNCHANGED <<connected, shell, client, sent, callVars>>
    /\ UNCHANGED restOfSession

SessionNext ==
    \/ CallConnect
    \/ ConnectOpen
    \/ ConnectShell
    \/ ConnectPrompt
    \/ ConnectHop
    \/ ConnectSudo
    \/ CallDisconnect
    \/ \E call \in {"execute_command", "execute_streaming_command"} : CallExecute(call)
    \/ \E call \in TaskCalls : CallTask(call)
    \/ ExecuteWait
    \/ StreamEnds
    \/ SessionRemoteClose

InitSession ==
    SessionInit /\ MetricsIdle /\ LogIdle /\ WindowIdle /\ PromptIdle /\ SanitizeIdle
    /\ ParseIdle
    /\ FacadeIdle
    /\ TaskIdle

SpecSession == InitSession /\ [][SessionNext]_vars

-----------------------------------------------------------------------------
(***************************************************************************)
(* Properties of the session, checked under SpecSession.                   *)
(***************************************************************************)

Called(i, calls) == s_calls[i].call \in calls

\* Not connected, and neither a channel nor a transport held.
Released(v) ==
    /\ ~v.session.connected
    /\ v.session.shell = 0
    /\ v.session.client = 0

\* The call ran connect from its first step to its last: one SSHClient was
\* made and is held, the two hops were sent, and the session is connected.
RanAllSteps(c) ==
    /\ c.after.opened = c.before.opened + 1
    /\ c.after.session.client = c.after.opened
    /\ c.after.session.shell # 0
    /\ c.after.sent = c.before.sent + 2
    /\ c.after.session.connected

\* The call went into connect's try block, where the first progress text is
\* printed.
BeganFirstStep(c) == c.after.output > c.before.output

\* C11: a connect() that fails, at whatever step, raises and leaves the
\* session not connected with channel and transport both released; and a
\* connect() that follows it starts again from the first step, so that when
\* it returns it has run every step.
C11_FailedConnectIsRetryable ==
    \A i \in 1..Len(s_calls) :
        (Called(i, {"connect"}) /\ s_calls[i].result.kind = "raised") =>
            /\ Released(s_calls[i].after)
            /\ (i < Len(s_calls) /\ Called(i + 1, {"connect"})) =>
                 /\ BeganFirstStep(s_calls[i + 1])
                 /\ s_calls[i + 1].result = Returned => RanAllSteps(s_calls[i + 1])

\* C11 witness: connect failed at the hop to the internal host, then at
\* invoke_shell, and the third connect went through.
C11_Witness ==
    /\ Len(s_calls) = 3
    /\ \A i \in 1..3 : Called(i, {"connect"})
    /\ s_calls[1].result.kind = "raised" /\ s_calls[1].result.at = "hop"
    /\ s_calls[2].result.kind = "raised" /\ s_calls[2].result.at = "shell"
    /\ s_calls[3].result = Returned
    /\ connected

\* C12: connect() on a session that is connected returns at once: no
\* SSHClient is made, nothing is sent, nothing is printed, and connected,
\* shell and client are what they were.
C12_ConnectOnReadyIsNoOp ==
    \A i \in 1..Len(s_calls) :
        (Called(i, {"connect"}) /\ s_calls[i].before.session.connected) =>
            /\ s_calls[i].result = Returned
            /\ s_calls[i].after = s_calls[i].before

\* C12 witness: connect went through, and a second connect was made on the
\* connected session.
C12_Witness ==
    /\ Len(s_calls) >= 2
    /\ Called(1, {"connect"}) /\ s_calls[1].result = Returned
    /\ s_calls[1].after.session.connected
    /\ Called(2, {"connect"})
    /\ s_calls[2].before.session.connected
    /\ s_calls[2].before.closed = "no"

\* C13: of two disconnect() calls in a row, the second returns without an
\* error and leaves what the first left: not connected, no channel, no
\* transport, nothing sent or printed.
C13_DisconnectIdempotent ==
    \A i \in 1..(Len(s_calls) - 1) :
        (Called(i, {"disconnect"}) /\ Called(i + 1, {"disconnect"})) =>
            /\ s_calls[i + 1].result = Returned
            /\ s_calls[i + 1].after = s_calls[i].after
            /\ Released(s_calls[i + 1].after)

\* C13 witness: a connected session was disconnected twice.
C13_Witness ==
    /\ Len(s_calls) = 3
    /\ Called(1, {"connect"}) /\ s_calls[1].after.session.connected
    /\ Called(2, {"disconnect"}) /\ Called(3, {"disconnect"})

\* The step sends a command that is not one of connect's own hops.
SendsCommand == Len(sent') > Len(sent) /\ s_call' # "connect"

\* On a session that is not connected, execute_command and
\* execute_streaming_command raise the not-connected error and the tasks
\* emit one error signal; none of them sends anything.
RejectedWhenNotConnected ==
    \A i \in 1..Len(s_calls) :
        ~s_calls[i].before.session.connected =>
            /\ Called(i, {"execute_command", "execute_streaming_command"}) =>
                 /\ s_calls[i].result = NotConnectedError
                 /\ s_calls[i].after.sent = s_calls[i].before.sent
            /\ Called(i, TaskCalls) =>
                 /\ s_calls[i].result = TaskNotConnected
                 /\ s_calls[i].after.events = s_calls[i].before.events + 1
                 /\ s_calls[i].after.sent = s_calls[i].before.sent

\* C14: no command is sent on a session that is not connected: every step
\* that sends one is taken with connected set, and a call made on a session
\* that is not connected is rejected before anything is sent.
C14_NoCommandUnlessReady ==
    [](RejectedWhenNotConnected) /\ [][SendsCommand => connected]_vars

\* C14 witness: execute_command was rejected on the new session, and so was
\* a task after a connect that failed.
C14_Witness ==
    /\ Len(s_calls) = 3
    /\ Called(1, {"execute_command"}) /\ s_calls[1].result = NotConnectedError
    /\ Called(2, {"connect"}) /\ s_calls[2].result.kind = "raised"
    /\ Called(3, TaskCalls) /\ s_calls[3].result = TaskNotConnected

\* The call met an exception of the channel.
MetIoError(c) == c.result.exc \in {"OSError", "OSError: Socket is closed"}

\* C18 (as claimed): an exception of the channel during execute_command or
\* execute_streaming_command leaves the session as disconnect() does, not
\* connected and with channel and transport released, and a connect() made
\* next runs every step again.
C18_IoErrorResetsSession ==
    \A i \in 1..Len(s_calls) :
        (Called(i, {"execute_command", "execute_streaming_command"})
            /\ MetIoError(s_calls[i])) =>
            /\ Released(s_calls[i].after)
            /\ (i < Len(s_calls) /\ Called(i + 1, {"connect"})) =>
                 /\ BeganFirstStep(s_calls[i + 1])
                 /\ s_calls[i + 1].result = Returned => RanAllSteps(s_calls[i + 1])

\* A step of connect() sends `cmd`.
ConnectSends(cmd) ==
    /\ s_call = "connect"
    /\ Len(sent') = Len(sent) + 1
    /\ Last(sent') = cmd

\* C30: connect() goes through its hops in order: `ssh <internal-host>` is
\* sent only when the first prompt of this connect() has been detected, the
\* sudo command only when the prompt that follows the ssh command has been
\* detected, and connected becomes true only when the prompt that follows the
\* sudo command has been detected; the session is never connected after
\* fewer than three prompts.
C30_HopsInOrder ==
    /\ [](connected => s_prompts >= 3)
    /\ [][/\ ConnectSends(CmdSshHop) => (s_prompts = 0 /\ s_prompts' = 1)
          /\ ConnectSends(CmdSudo) =>
                (s_prompts = 1 /\ s_prompts' = 2 /\ Last(sent) = CmdSshHop)
          /\ (connected' /\ ~connected) =>
                (s_prompts = 2 /\ s_prompts' = 3 /\ Last(sent) = CmdSudo)]_vars

\* C30 witness: a connect() that failed while it waited for the second
\* prompt was followed by one that detected three prompts and returned.
C30_Witness ==
    /\ Len(s_calls) = 2
    /\ Called(1, {"connect"}) /\ s_calls[1].result.kind = "raised"
    /\ Called(2, {"connect"}) /\ s_calls[2].result = Returned
    /\ connected /\ s_prompts = 3
    /\ Len(sent) = 3 /\ Last(sent) = CmdSudo

\* Connected only with a channel and a transport.
HandlesPresent(v) ==
    v.session.connected => (v.session.shell # 0 /\ v.session.client # 0)

\* C36: after any sequence of completed connect, disconnect, execute_command
\* and execute_streaming_command calls, each succeeding or failing, the
\* connected flag is set only if the channel and the transport are both
\* there; and after a connect() that failed, and after every disconnect(),
\* both are gone and the flag is not set.
C36_FlagAndHandlesAgree ==
    /\ s_pc = "idle" => HandlesPresent(View)
    /\ \A i \in 1..Len(s_calls) :
          /\ HandlesPresent(s_calls[i].after)
          /\ (Called(i, {"connect"}) /\ s_calls[i].result.kind = "raised") =>
                Released(s_calls[i].after)
          /\ Called(i, {"disconnect"}) => Released(s_calls[i].after)

\* C36 witness: connect went through, a command failed on the channel, and
\* disconnect released the session.
C36_Witness ==
    /\ Len(s_calls) = 3
    /\ Called(1, {"connect"}) /\ s_calls[1].result = Returned
    /\ Called(2, {"execute_command", "execute_streaming_command"})
    /\ s_calls[2].result.exc = "OSError"
    /\ s_calls[2].after.session.connected
    /\ Called(3, {"disconnect"})
    /\ Released(s_calls[3].after)

-----------------------------------------------------------------------------
(***************************************************************************)
(* SSHConnectionManager._wait_for_prompt, one call.  Time is counted in    *)
(* tenths of a second from start_time: an iteration that reads takes no    *)
(* time, one that finds nothing to read sleeps a tenth.  The remote side   *)
(* writes chunks of output at any moment; the channel can fail.            *)
(***************************************************************************)

MaxArrivals == 2    \* chunks the remote side writes during one call
MaxTimeout  == 20   \* the longer of the timeouts a call is made with

IdleThreshold == 10   \* `time.time() - last_activity > 1.0`
SleepTicks    == 1    \* `time.sleep(0.1)`

\* The timeout arguments: shorter than the idle threshold, and longer.
PromptTimeouts == {5, MaxTimeout}

\* What the remote side writes at once.
PromptChunks ==
    { <<"x">>, <<"x", "\r", "\n">>, <<"\n">>, <<"\n", "\n">>, <<" ">>,
      <<"$", " ">>, <<"]", "$">>, <<"#", "\t">>, <<">">> }

\* The line boundaries of str.splitlines that the output can hold.
LineBreaks == {"\n", "\r"}

\* The characters `\s` matches.
Whitespace == {" ", "\t", "\n", "\r"}

\* Each pattern is a sequence of character classes, followed by `\s*$`.
PROMPT_PATTERNS ==
    << << {"$", "#"} >>,
       << {"]"}, {"$"} >>,
       << {">"} >> >>

RECURSIVE SplitFrom(_, _, _, _)
SplitFrom(s, i, cur, acc) ==
    IF i > Len(s) THEN (IF cur = <<>> THEN acc ELSE Append(acc, cur))
    ELSE IF s[i] = "\r" /\ i < Len(s) /\ s[i + 1] = "\n"
         THEN SplitFrom(s, i + 2, <<>>, Append(acc, cur))
    ELSE IF s[i] \in LineBreaks
         THEN SplitFrom(s, i + 1, <<>>, Append(acc, cur))
    ELSE SplitFrom(s, i + 1, Append(cur, s[i]), acc)

\* str.splitlines(): the lines without their line breaks; a line break at
\* the end of the string begins no further line.
splitlines(s) == SplitFrom(s, 1, <<>>, <<>>)

\* re.search(pattern, line) for a pattern `<classes>\s*$`
search(pattern, line) ==
    \E i \in 1..Len(line) :
        /\ i + Len(pattern) - 1 <= Len(line)
        /\ \A k \in 1..Len(pattern) : line[i + k - 1] \in pattern[k]
        /\ \A j \in (i + Len(pattern))..Len(line) : line[j] \in Whitespace

\* `buffer.splitlines()[-1] if buffer.splitlines() else ""`
LastLine(buffer) ==
    IF splitlines(buffer) = <<>> THEN <<>>
    ELSE splitlines(buffer)[Len(splitlines(buffer))]

\* lines 336-337: some pattern is found in the last line of the buffer
PromptDetected(buffer) ==
    \E n \in 1..Len(PROMPT_PATTERNS) : search(PROMPT_PATTERNS[n], LastLine(buffer))

\* line 321: `if elapsed > timeout`
TimedOut_at_timeout(elapsed, timeout) == elapsed >= timeout

TimedOut(elapsed, timeout) == elapsed > timeout

\* line 334: `if time.time() - last_activity > 1.0`
IsIdle(now, last_activity) == now - last_activity > IdleThreshold

\* line 324: the message of the RuntimeError raised at the timeout
TimeoutMessage(timeout, buffer) ==
    <<"Timeout waiting for shell prompt after ", timeout, "s">>

PromptReturned(buffer) == [kind |-> "returned", value |-> buffer]
PromptRaised(exc)      == [kind |-> "raised", value |-> exc]

\* lines 315-317: the call begins
PromptInit ==
    /\ p_pc = "loop"
    /\ p_timeout \in PromptTimeouts
    /\ p_now = 0
    /\ p_last_activity = 0
    /\ p_buffer = <<>>
    /\ p_ready = <<>>
    /\ p_arrivals = 0
    /\ p_result = <<>>

\* The remote side writes a chunk, which the next recv will read.
PromptArrive ==
    /\ p_pc = "loop"
    /\ p_ready = <<>>
    /\ p_arrivals < MaxArrivals
    /\ \E chunk \in PromptChunks : p_ready' = chunk
    /\ p_arrivals' = p_arrivals + 1
    /\ UNCHANGED <<p_pc, p_timeout, p_now, p_last_activity, p_buffer, p_result>>
    /\ UNCHANGED restOfPrompt

\* lines 320-324: the timeout has elapsed at the head of the loop
PromptTimeout ==
    /\ p_pc = "loop"
    /\ TimedOut(p_now, p_timeout)
    /\ p_pc' = "done"
    /\ p_result' = PromptRaised(TimeoutMessage(p_timeout, p_buffer))
    /\ UNCHANGED <<p_timeout, p_now, p_last_activity, p_buffer, p_ready, p_arrivals>>
    /\ UNCHANGED restOfPrompt

\* lines 327-331: there is something to read
PromptRecv ==
    /\ p_pc = "loop"
    /\ ~TimedOut(p_now, p_timeout)
    /\ p_ready # <<>>
    /\ p_buffer' = p_buffer \o p_ready
    /\ p_last_activity' = p_now
    /\ p_ready' = <<>>
    /\ UNCHANGED <<p_pc, p_timeout, p_now, p_arrivals, p_result>>
    /\ UNCHANGED restOfPrompt

\* lines 332-341: nothing to read; the buffer is returned when the channel
\* has been idle and a prompt is found, and otherwise the loop sleeps
PromptCheck ==
    /\ p_pc = "loop"
    /\ ~TimedOut(p_now, p_timeout)
    /\ p_ready = <<>>
    /\ IF IsIdle(p_now, p_last_activity) /\ PromptDetected(p_buffer)
       THEN /\ p_pc' = "done"
            /\ p_result' = PromptReturned(p_buffer)
            /\ UNCHANGED p_now
       ELSE /\ p_now' = p_now + SleepTicks
            /\ UNCHANGED <<p_pc, p_result>>
    /\ UNCHANGED <<p_timeout, p_last_activity, p_buffer, p_ready, p_arrivals>>
    /\ UNCHANGED restOfPrompt

\* lines 342-344: recv_ready or recv raises; the exception is logged and
\* raised again
PromptError ==
    /\ p_pc = "loop"
    /\ ~TimedOut(p_now, p_timeout)
    /\ p_pc' = "done"
    /\ p_result' = PromptRaised(<<"OSError">>)
    /\ UNCHANGED <<p_timeout, p_now, p_last_activity, p_buffer, p_ready, p_arrivals>>
    /\ UNCHANGED restOfPrompt

\* The steps of the thread that made the call.
PromptStep == PromptTimeout \/ PromptRecv \/ PromptCheck

PromptNext ==
    \/ PromptArrive
    \/ PromptTimeout
    \/ PromptRecv
    \/ PromptCheck
    \/ PromptError

InitPrompt ==
    /\ PromptInit /\ MetricsIdle /\ SessionIdle /\ LogIdle /\ WindowIdle
    /\ CallIdle /\ SanitizeIdle
    /\ ParseIdle
    /\ FacadeIdle
    /\ TaskIdle

SpecPrompt == InitPrompt /\ [][PromptNext]_vars

\* The thread that made the call keeps running.
SpecPromptLive == SpecPrompt /\ WF_vars(PromptStep)

-----------------------------------------------------------------------------
(***************************************************************************)
(* Properties of _wait_for_prompt, checked under SpecPrompt and            *)
(* SpecPromptLive.                                                         *)
(***************************************************************************)

\* The last line of the buffer that has any character in it.
RECURSIVE LastNonEmpty(_)
LastNonEmpty(lines) ==
    IF lines = <<>> THEN <<>>
    ELSE IF lines[Len(lines)] # <<>> THEN lines[Len(lines)]
    ELSE LastNonEmpty(SubSeq(lines, 1, Len(lines) - 1))

\* The step is an iteration of the loop that found nothing to read.
ChecksForPrompt ==
    /\ p_pc = "loop"
    /\ p_ready = <<>>
    /\ ~(p_now > p_timeout)
    /\ \/ p_now' # p_now
       \/ p_pc' = "done" /\ p_result'.kind = "returned"

\* C15: an iteration that finds nothing to read returns the whole buffer
\* exactly when no bytes have arrived for more than a second and the last
\* non-empty line of the buffer matches one of the prompt patterns, also
\* when empty lines follow the prompt line.
C15_ReturnsExactlyOnIdlePrompt ==
    [][ChecksForPrompt =>
         ((p_pc' = "done" /\ p_result' = PromptReturned(p_buffer))
            <=> (/\ p_now - p_last_activity > IdleThreshold
                 /\ \E n \in 1..Len(PROMPT_PATTERNS) :
                        search(PROMPT_PATTERNS[n],
                               LastNonEmpty(splitlines(p_buffer)))))]_vars

\* The call has ended as it may: a buffer is returned only before the
\* timeout has elapsed, after more than a second without bytes and with a
\* prompt in its last line; the timeout error is raised only after the
\* timeout has elapsed.
EndedInTime ==
    p_pc = "done" =>
        /\ p_result.kind = "returned" =>
              /\ ~(p_now > p_timeout)
              /\ p_now - p_last_activity > IdleThreshold
              /\ PromptDetected(p_buffer)
              /\ p_result.value = p_buffer
        /\ p_result = PromptRaised(TimeoutMessage(p_timeout, p_buffer)) =>
              p_now > p_timeout

\* C16: when data that never forms an idle prompt keeps arriving, the call
\* returns no buffer; it waits until the timeout has elapsed and then
\* raises the timeout error, and it never returns a buffer after the
\* timeout has elapsed.  Every call ends.
C16_WaitsUntilTimeoutThenRaises ==
    /\ [](EndedInTime)
    /\ <>(p_pc = "done")

\* C16 witness: output without a prompt arrived during the wait, and the
\* call has raised the timeout error after the longer timeout.
C16_Witness ==
    /\ p_pc = "done"
    /\ p_result = PromptRaised(TimeoutMessage(p_timeout, p_buffer))
    /\ p_timeout > IdleThreshold
    /\ p_arrivals >= 2
    /\ p_last_activity > 0
    /\ p_buffer # <<>>
    /\ ~PromptDetected(p_buffer)

\* C17: the error raised at the timeout carries the tail of the buffer, so
\* that a timeout with output in the buffer raises another error than a
\* timeout with an empty buffer.
C17_TimeoutErrorCarriesBufferTail ==
    (/\ p_pc = "done"
     /\ p_result.kind = "raised"
     /\ p_now > p_timeout
     /\ p_buffer # <<>>)
        => p_result # PromptRaised(TimeoutMessage(p_timeout, <<>>))

-----------------------------------------------------------------------------
(***************************************************************************)
(* The sanitizers of KubernetesOperations.  A string is a sequence of      *)
(* characters; one character stands for each class the sanitizers tell     *)
(* apart, the non-ASCII ones written by their code points.                 *)
(***************************************************************************)

MaxInputLen == 3   \* length of the strings that are enumerated in full

MaxPodNameLength == 253   \* `if len(sanitized) > 253`

AsciiLetters    == {"a", "x"}
AsciiDigits     == {"7"}
UnicodeLetters  == {"U+00E9"}           \* LATIN SMALL LETTER E WITH ACUTE
UnicodeDigits   == {"U+0663"}           \* ARABIC-INDIC DIGIT THREE
ShellCharacters == {";"}
StripCharacters == {" "}                \* what str.strip() removes

InputCharacters ==
    AsciiLetters \cup AsciiDigits \cup UnicodeLetters \cup UnicodeDigits
        \cup ShellCharacters \cup StripCharacters \cup {"_", ".", "-"}

\* Strings about the length limit of a pod name.
LongInputs ==
    { Repeat("a", MaxPodNameLength),
      Repeat("a", MaxPodNameLength + 1),
      <<" ">> \o Repeat("a", MaxPodNameLength) \o <<";">>,
      Repeat("a", MaxPodNameLength) \o <<"-">>,
      Repeat("a", MaxPodNameLength) \o <<"_", "7">> }

SanitizerInputs ==
    UNION { [1..n -> InputCharacters] : n \in 0..MaxInputLen } \cup LongInputs

\* str.isalnum() of one character: true of every letter and of every
\* decimal digit of Unicode
isalnum(c) ==
    c \in AsciiLetters \cup AsciiDigits \cup UnicodeLetters \cup UnicodeDigits

RECURSIVE lstrip(_)
lstrip(s) ==
    IF s # <<>> /\ Head(s) \in StripCharacters THEN lstrip(Tail(s)) ELSE s

RECURSIVE rstrip(_)
rstrip(s) ==
    IF s # <<>> /\ s[Len(s)] \in StripCharacters
    THEN rstrip(SubSeq(s, 1, Len(s) - 1))
    ELSE s

\* str.strip()
strip(s) == rstrip(lstrip(s))

SanitizerReturned(value) == [kind |-> "returned", value |-> value]
ValueError(message)      == [kind |-> "raised", value |-> message]

\* line 378: `''.join(c for c in pattern if c.isalnum() or c in '-_.')`
GrepKeeps(c) == isalnum(c) \/ c \in {"-", "_", "."}

\* line 420: `''.join(c for c in pod_name if c.isalnum() or c in '-.')`
PodKeeps(c) == isalnum(c) \/ c \in {"-", "."}

PrependSafe_always(sanitized) == <<"x">> \o sanitized

\* lines 384-386: a leading dash gets an 'x' before it
PrependSafe(sanitized) ==
    IF sanitized[1] = "-" THEN <<"x">> \o sanitized ELSE sanitized

\* KubernetesOperations._sanitize_grep_pattern
_sanitize_grep_pattern(pattern) ==
    IF strip(pattern) = <<>>
    THEN ValueError("Search pattern cannot be empty")
    ELSE IF SelectSeq(strip(pattern), GrepKeeps) = <<>>
    THEN ValueError("Invalid search pattern - contains no valid characters")
    ELSE SanitizerReturned(PrependSafe(SelectSeq(strip(pattern), GrepKeeps)))

\* lines 422-434: the checks made of the filtered pod name
ValidatePodName(sanitized) ==
    IF sanitized = <<>>
    THEN ValueError("Invalid pod name - contains no valid characters")
    ELSE IF ~isalnum(sanitized[1])
    THEN ValueError("Invalid pod name - must start with alphanumeric character")
    ELSE IF ~isalnum(sanitized[Len(sanitized)])
    THEN ValueError("Invalid pod name - must end with alphanumeric character")
    ELSE IF Len(sanitized) > MaxPodNameLength
    THEN ValueError("Invalid pod name - exceeds maximum length of 253 characters")
    ELSE SanitizerReturned(sanitized)

\* KubernetesOperations._sanitize_pod_name
_sanitize_pod_name(pod_name) ==
    IF strip(pod_name) = <<>>
    THEN ValueError("Pod name cannot be empty")
    ELSE ValidatePodName(SelectSeq(strip(pod_name), PodKeeps))

\* Some string is given.
SanitizeInit ==
    /\ z_input \in SanitizerInputs
    /\ z_grep = <<>>
    /\ z_pod = <<>>
    /\ z_grep_again = <<>>
    /\ z_pod_again = <<>>

\* list_pods line 127: the search keyword is sanitized
SanitizeGrep ==
    /\ z_grep = <<>>
    /\ z_grep' = _sanitize_grep_pattern(z_input)
    /\ UNCHANGED <<z_input, z_pod, z_grep_again, z_pod_again>>
    /\ UNCHANGED restOfSanitize

\* stream_pod_logs line 181, get_pod_details line 234, get_pod_metrics
\* line 274: the pod name is sanitized
SanitizePod ==
    /\ z_pod = <<>>
    /\ z_pod' = _sanitize_pod_name(z_input)
    /\ UNCHANGED <<z_input, z_grep, z_grep_again, z_pod_again>>
    /\ UNCHANGED restOfSanitize

\* The keyword _sanitize_grep_pattern returned is given to it again.
SanitizeGrepAgain ==
    /\ z_grep # <<>>
    /\ z_grep.kind = "returned"
    /\ z_grep_again = <<>>
    /\ z_grep_again' = _sanitize_grep_pattern(z_grep.value)
    /\ UNCHANGED <<z_input, z_grep, z_pod, z_pod_again>>
    /\ UNCHANGED restOfSanitize

\* The pod name _sanitize_pod_name returned is given to it again: the names
\* of pod_list come from the sanitized listing and go to stream_pod_logs.
SanitizePodAgain ==
    /\ z_pod # <<>>
    /\ z_pod.kind = "returned"
    /\ z_pod_again = <<>>
    /\ z_pod_again' = _sanitize_pod_name(z_pod.value)
    /\ UNCHANGED <<z_input, z_grep, z_pod, z_grep_again>>
    /\ UNCHANGED restOfSanitize

SanitizeNext ==
    \/ SanitizeGrep
    \/ SanitizePod
    \/ SanitizeGrepAgain
    \/ SanitizePodAgain

InitSanitize ==
    /\ SanitizeInit /\ MetricsIdle /\ SessionIdle /\ LogIdle /\ WindowIdle
    /\ CallIdle /\ PromptIdle
    /\ ParseIdle
    /\ FacadeIdle
    /\ TaskIdle

SpecSanitize == InitSanitize /\ [][SanitizeNext]_vars

-----------------------------------------------------------------------------
(***************************************************************************)
(* Properties of the sanitizers, checked under SpecSanitize.               *)
(***************************************************************************)

\* [A-Za-z0-9_.-] and [A-Za-z0-9.-]
IdentifierCharacters == AsciiLetters \cup AsciiDigits \cup {"_", ".", "-"}
PodNameCharacters    == AsciiLetters \cup AsciiDigits \cup {".", "-"}

InIdentifierCharacters(c) == c \in IdentifierCharacters
InPodNameCharacters(c)    == c \in PodNameCharacters

\* [A-Za-z0-9]
AsciiAlphanumeric(c) == c \in AsciiLetters \cup AsciiDigits

\* C19: for every string, what _sanitize_grep_pattern returns is made only
\* of characters in [A-Za-z0-9_.-] and does not start with '-'; and for a
\* string with at least one such character it returns a non-empty string.
C19_GrepPatternOnlySafeCharacters ==
    z_grep # <<>> =>
        /\ z_grep.kind = "returned" =>
              /\ \A i \in 1..Len(z_grep.value) :
                     z_grep.value[i] \in IdentifierCharacters
              /\ z_grep.value # <<>>
              /\ z_grep.value[1] # "-"
        /\ SelectSeq(z_input, InIdentifierCharacters) # <<>> =>
              z_grep.kind = "returned" /\ z_grep.value # <<>>

\* C20: for every string, _sanitize_pod_name raises or returns the string
\* filtered to [A-Za-z0-9.-], which then begins and ends with a letter or
\* digit and has at most 253 characters; it raises when the filtered string
\* is empty, begins or ends with another character, or is longer; and both
\* sanitizers raise for a string without any allowed character.
C20_PodNameFilteredOrRejected ==
    /\ z_pod # <<>> =>
          \E filtered \in {SelectSeq(z_input, InPodNameCharacters)} :
              /\ z_pod.kind = "returned" =>
                    /\ z_pod.value = filtered
                    /\ filtered # <<>>
                    /\ AsciiAlphanumeric(filtered[1])
                    /\ AsciiAlphanumeric(filtered[Len(filtered)])
                    /\ Len(filtered) <= MaxPodNameLength
              /\ (\/ filtered = <<>>
                  \/ ~AsciiAlphanumeric(filtered[1])
                  \/ ~AsciiAlphanumeric(filtered[Len(filtered)])
                  \/ Len(filtered) > MaxPodNameLength) =>
                    z_pod.kind = "raised"
    /\ (z_grep # <<>> /\ SelectSeq(z_input, InIdentifierCharacters) = <<>>) =>
          z_grep.kind = "raised"

\* C37: both sanitizers are idempotent on what they accept: for every string
\* _sanitize_grep_pattern (resp. _sanitize_pod_name) returns a value for,
\* the same sanitizer applied to that value returns it unchanged.
C37_SanitizersIdempotent ==
    /\ z_grep_again # <<>> => z_grep_again = z_grep
    /\ z_pod_again # <<>> => z_pod_again = z_pod

\* C37 witness: a string from which each sanitizer dropped something, and
\* each was applied to its own result.
C37_Witness ==
    /\ z_grep_again # <<>> /\ z_pod_again # <<>>
    /\ Len(z_grep.value) < Len(z_input)
    /\ Len(z_pod.value) < Len(z_grep.value)

-----------------------------------------------------------------------------
(***************************************************************************)
(* KubernetesOperations._parse_pod_list.  The output of kubectl get pods   *)
(* is given as its lines (`output.strip().split('\n')`); a line is a       *)
(* sequence of characters, where a word of the output that the parser      *)
(* never looks into is written as one symbol.                              *)
(***************************************************************************)

MaxLines == 4   \* lines of one output

\* Words written as one symbol; each is made of letters.
WordSymbols == {"kubectl", "get", "pods", "NAME", "READY", "STATUS", "Running"}

HeaderLine == <<"NAME", " ", " ", "READY", " ", "STATUS">>

PodLines ==
    { <<"a", "-", "7", " ", " ", "7", "/", "7", " ", "Running">>,
      <<"x", ".", "7", "-", "a", " ", "Running">> }

BlankLines == { <<>>, <<" ", " ">> }

EchoLine == <<"kubectl", " ", "get", " ", "pods">>

\* Lines that PROMPT_PATTERNS take for a prompt.
PromptLines ==
    { <<"[", "a", "]", "$", " ">>, <<"a", "#">>, <<"a", ">", " ">>,
      <<"a", "-", "7", ">">> }

OutputLines ==
    {HeaderLine, EchoLine} \cup PodLines \cup BlankLines \cup PromptLines

\* The outputs the parser is given.
ParserOutputs == UNION { [1..n -> OutputLines] : n \in 0..MaxLines }

\* line 461: `line.startswith('kubectl') or line.endswith('$') or
\* line.endswith('#')`
IsEchoOrPrompt(line) ==
    \/ line[1] = "kubectl"
    \/ line[Len(line)] = "$"
    \/ line[Len(line)] = "#"

\* `line.split()[0]` of a line that neither begins nor ends with a blank
RECURSIVE FirstToken(_)
FirstToken(line) ==
    IF line = <<>> \/ Head(line) \in StripCharacters THEN <<>>
    ELSE <<Head(line)>> \o FirstToken(Tail(line))

\* KubernetesOperations._looks_like_pod_name
_looks_like_pod_name(name) ==
    IF name = <<>> THEN FALSE
    ELSE IF ~\E i \in 1..Len(name) : isalnum(name[i]) \/ name[i] \in WordSymbols
    THEN FALSE
    ELSE IF name[1] \in {"-", "_", "."} THEN FALSE
    ELSE TRUE

\* lines 455-471: what one line adds to the list of pods
PodsOfLine(line) ==
    IF strip(line) = <<>> THEN <<>>
    ELSE IF IsEchoOrPrompt(strip(line)) THEN <<>>
    ELSE IF _looks_like_pod_name(FirstToken(strip(line)))
    THEN << FirstToken(strip(line)) >>
    ELSE <<>>

\* KubernetesOperations._parse_pod_list
RECURSIVE _parse_pod_list(_)
_parse_pod_list(lines) ==
    IF lines = <<>> THEN <<>>
    ELSE PodsOfLine(Head(lines)) \o _parse_pod_list(Tail(lines))

\* ArgoWorker._parse_pod_names, lines 113-129: what one line adds to pod_names
PodNamesOfLine(line) ==
    LET l        == strip(line)
        pod_name == FirstToken(l)
    IN  IF l = <<>> THEN <<>>
        ELSE IF l[1] = "NAME" /\ \E i \in 1..Len(l) : l[i] = "READY" THEN <<>>
        ELSE IF IsEchoOrPrompt(l) THEN <<>>
        ELSE IF pod_name # <<>> /\ pod_name[1] # "["
                  /\ \E i \in 1..Len(pod_name) : pod_name[i] = "-"
        THEN <<pod_name>>
        ELSE <<>>

\* ArgoWorker._parse_pod_names
RECURSIVE _parse_pod_names(_)
_parse_pod_names(lines) ==
    IF lines = <<>> THEN <<>>
    ELSE PodNamesOfLine(Head(lines)) \o _parse_pod_names(Tail(lines))

\* Some output is given.
ParseInit ==
    /\ q_lines \in ParserOutputs
    /\ q_pods = <<>>
    /\ q_called = FALSE
    /\ q_names = <<>>
    /\ q_names_called = FALSE

\* list_pods line 140: `pods = self._parse_pod_list(clean_output)`
ParsePodList ==
    /\ ~q_called
    /\ q_pods' = _parse_pod_list(q_lines)
    /\ q_called' = TRUE
    /\ UNCHANGED <<q_lines, q_names, q_names_called>>
    /\ UNCHANGED restOfParse

\* _handle_list_all_pods line 219 (and _handle_connect line 178):
\* `pod_names = self._parse_pod_names(pods_output)`
ParsePodNames ==
    /\ ~q_names_called
    /\ q_names' = _parse_pod_names(q_lines)
    /\ q_names_called' = TRUE
    /\ UNCHANGED <<q_lines, q_pods, q_called>>
    /\ UNCHANGED restOfParse

ParseNext ==
    \/ ParsePodList
    \/ ParsePodNames

InitParse ==
    /\ ParseInit /\ MetricsIdle /\ SessionIdle /\ LogIdle /\ WindowIdle
    /\ CallIdle /\ PromptIdle /\ SanitizeIdle
    /\ FacadeIdle
    /\ TaskIdle

SpecParse == InitParse /\ [][ParseNext]_vars

-----------------------------------------------------------------------------
(***************************************************************************)
(* Properties of the parser, checked under SpecParse.                      *)
(***************************************************************************)

\* The names in the pod lines of an output, in their order.
RECURSIVE PodNamesIn(_)
PodNamesIn(lines) ==
    IF lines = <<>> THEN <<>>
    ELSE (IF Head(lines) \in PodLines THEN << FirstToken(Head(lines)) >> ELSE <<>>)
             \o PodNamesIn(Tail(lines))

\* C23: of an output made of a header line, pod lines, blank lines, a
\* command echo and prompt lines in any order, the parser returns the names
\* of the pod lines in their order, and nothing of the other lines.
C23_ParserReturnsThePodNames ==
    q_called => q_pods = PodNamesIn(q_lines)

\* `line.split()`: the tokens of a line
RECURSIVE Tokens(_)
Tokens(line) ==
    IF lstrip(line) = <<>> THEN {}
    ELSE {FirstToken(lstrip(line))}
             \cup Tokens(SubSeq(lstrip(line), Len(FirstToken(lstrip(line))) + 1,
                                Len(lstrip(line))))

\* _wait_for_prompt takes the line for a prompt: one of PROMPT_PATTERNS is
\* found in it.
AcceptedAsPrompt(line) ==
    \E n \in 1..Len(PROMPT_PATTERNS) : search(PROMPT_PATTERNS[n], line)

Names(pods) == {pods[i] : i \in 1..Len(pods)}

\* C38: when the last line of an output is one that _wait_for_prompt accepts
\* as a prompt (it ends in '$', '#' or '>'), neither _parse_pod_list nor
\* _parse_pod_names returns a token of that line as a pod name.
C38_PromptLineIsNoPod ==
    (q_lines # <<>> /\ AcceptedAsPrompt(Last(q_lines))) =>
        /\ q_called => Tokens(Last(q_lines)) \cap Names(q_pods) = {}
        /\ q_names_called => Tokens(Last(q_lines)) \cap Names(q_names) = {}

-----------------------------------------------------------------------------
(***************************************************************************)
(* KubernetesOperations.  The operations are called, in any order, with    *)
(* one string as keyword or pod name, on a session that is connected or    *)
(* not; execute_command and execute_streaming_command send the command     *)
(* and then succeed or fail.  A command is the sequence of its characters, *)
(* where a fixed word of the source is written as one symbol.              *)
(***************************************************************************)

MaxOps    == 2   \* operations called in one behaviour
MaxArgLen == 2   \* length of the keywords and pod names enumerated in full

FacadeOps == {"list_all_pods", "list_pods", "stream_pod_logs",
              "get_pod_details", "get_pod_metrics"}

\* The operations that take a keyword or a pod name.
OpsWithArgument == FacadeOps \ {"list_all_pods"}

\* The strings given: the short ones, and pod names about the length limit.
FacadeInputs ==
    UNION { [1..n -> InputCharacters] : n \in 0..MaxArgLen }
        \cup { Repeat("a", MaxPodNameLength), Repeat("a", MaxPodNameLength + 1) }

\* KubernetesConfig.get_namespace(): ARGO_NAMESPACE, "argo" when unset
Namespace == "argo"

\* shlex.quote: the characters that need no quoting (`[\w@%+=:,./-]`, ASCII)
ShlexSafe(c) ==
    c \in AsciiLetters \cup AsciiDigits
            \cup {"_", "@", "%", "+", "=", ":", ",", ".", "/", "-"}

\* `s.replace("'", "'\"'\"'")`
RECURSIVE EscapeQuotes(_)
EscapeQuotes(s) ==
    IF \A i \in 1..Len(s) : s[i] # "'" THEN s
    ELSE (IF Head(s) = "'" THEN <<"'", "\"", "'", "\"", "'">> ELSE <<Head(s)>>)
             \o EscapeQuotes(Tail(s))

\* shlex.quote
shlex_quote(s) ==
    IF s = <<>> THEN <<"'", "'">>
    ELSE IF \A i \in 1..Len(s) : ShlexSafe(s[i]) THEN s
    ELSE <<"'">> \o EscapeQuotes(s) \o <<"'">>

\* The sanitizer an operation gives its argument to.
Sanitized(op, arg) ==
    IF op = "list_pods" THEN _sanitize_grep_pattern(arg) ELSE _sanitize_pod_name(arg)

\* What is put into the command for the argument.
CommandArgument_unsanitized(op, arg) == shlex_quote(strip(arg))

CommandArgument(op, arg) == shlex_quote(Sanitized(op, arg).value)

\* The kubectl verb of an operation.
VerbOf_exec(op) ==
    CASE op \in {"list_all_pods", "list_pods"} -> "get"
      [] op = "stream_pod_logs" -> "logs"
      [] op = "get_pod_details" -> "exec"
      [] op = "get_pod_metrics" -> "top"

VerbOf(op) ==
    CASE op \in {"list_all_pods", "list_pods"} -> "get"
      [] op = "stream_pod_logs" -> "logs"
      [] op = "get_pod_details" -> "describe"
      [] op = "get_pod_metrics" -> "top"

\* The command of an operation: lines 91, 135, 189-200, 241 and 282.
CommandText(op, arg) ==
    CASE op = "list_all_pods" ->
           <<"kubectl", " ", VerbOf(op), " ", "pods", " ", "-n", " ", Namespace, " ",
             "--field-selector=status.phase=Running">>
      [] op = "list_pods" ->
           <<"kubectl", " ", VerbOf(op), " ", "pods", " ", "-n", " ", Namespace, " ",
             "--no-headers", " ", "|", " ", "grep", " ">> \o CommandArgument(op, arg)
      [] op = "stream_pod_logs" ->
           <<"kubectl", " ", VerbOf(op), " ">> \o CommandArgument(op, arg)
               \o <<" ", "-n", " ", Namespace, " ", "-f">>
      [] op = "get_pod_details" ->
           <<"kubectl", " ", VerbOf(op), " ", "pod", " ">> \o CommandArgument(op, arg)
               \o <<" ", "-n", " ", Namespace>>
      [] op = "get_pod_metrics" ->
           <<"kubectl", " ", VerbOf(op), " ", "pod", " ">> \o CommandArgument(op, arg)
               \o <<" ", "-n", " ", Namespace, " ", "--no-headers">>

\* `if not pod_name or not pod_name.strip(): raise ValueError(...)`
EmptyArgumentError(op) ==
    IF op = "list_pods" THEN ValueError("Search keyword cannot be empty")
    ELSE ValueError("Pod name cannot be empty")

\* The RuntimeError an operation raises for an exception of the session.
FacadeError(op) ==
    [kind |-> "raised",
     value |-> CASE op \in {"list_all_pods", "list_pods"} -> "Failed to list pods"
                 [] op = "stream_pod_logs" -> "Failed to stream logs"
                 [] op = "get_pod_details" -> "Failed to get pod details"
                 [] op = "get_pod_metrics" -> "Metrics unavailable"]

\* The argument is refused before any command is built: the error raised,
\* or <<>> when the argument is accepted.
Refusal(op, arg) ==
    IF op \notin OpsWithArgument THEN <<>>
    ELSE IF strip(arg) = <<>> THEN EmptyArgumentError(op)
    ELSE IF Sanitized(op, arg).kind = "raised" THEN Sanitized(op, arg)
    ELSE <<>>

\* An operation, up to its result: the command it sends (<<>>: none) and
\* what the caller gets.  answered: the session returns the output.
Operation(op, arg, conn, answered) ==
    IF Refusal(op, arg) # <<>>
    THEN [send |-> <<>>, result |-> Refusal(op, arg)]
    ELSE IF ~ExecuteAccepts(conn)
    THEN [send |-> <<>>, result |-> FacadeError(op)]
    ELSE IF ~answered
    THEN [send |-> CommandText(op, arg), result |-> FacadeError(op)]
    ELSE [send |-> CommandText(op, arg),
          result |-> [kind |-> "returned", value |-> op]]

\* The session is connected or not; some string is chosen.
FacadeInit ==
    /\ k_arg \in FacadeInputs
    /\ k_op = "none"
    /\ k_result = <<>>
    /\ k_calls = 0
    /\ connected \in BOOLEAN
    /\ shell = (IF connected THEN 1 ELSE 0)
    /\ client = (IF connected THEN 1 ELSE 0)
    /\ chan_closed = "no"
    /\ pending = 0 /\ produced = 0
    /\ sent = <<>>

\* One of the operations is called.
FacadeCall ==
    /\ k_calls < MaxOps
    /\ \E op \in FacadeOps, answered \in BOOLEAN :
         \E r \in {Operation(op, k_arg, connected, answered)} :
            /\ k_op' = op
            /\ k_result' = r.result
            /\ sent' = IF r.send = <<>> THEN sent ELSE Append(sent, r.send)
    /\ k_calls' = k_calls + 1
    /\ UNCHANGED <<k_arg, connected, shell, client, chan_closed, pending, produced>>
    /\ UNCHANGED restOfFacade

FacadeNext == FacadeCall

InitFacade ==
    /\ FacadeInit /\ MetricsIdle /\ LogIdle /\ WindowIdle
    /\ CallIdle /\ PromptIdle /\ SanitizeIdle /\ ParseIdle
    /\ TaskIdle

SpecFacade == InitFacade /\ [][FacadeNext]_vars

-----------------------------------------------------------------------------
(***************************************************************************)
(* Properties of the operations, checked under SpecFacade.                 *)
(***************************************************************************)

\* How the remote shell reads a command: blanks separate words, single
\* quotes keep what they enclose in one word, and an unquoted `;`, `|` or
\* `&` ends a command.
ShellOperators == {";", "|", "&"}

OperatorWord(c) == CASE c = ";" -> <<"<;>">> [] c = "|" -> <<"<|>">> [] c = "&" -> <<"<&>">>

OperatorWords == {OperatorWord(c) : c \in ShellOperators}

\* Position i of the text is inside single quotes.
Quoted(text, i) == Cardinality({j \in 1..(i - 1) : text[j] = "'"}) % 2 = 1

\* Position i ends a word: an unquoted blank or operator.
Separates(text, i) == ~Quoted(text, i) /\ text[i] \in {" "} \cup ShellOperators

\* The positions where a word or an operator begins.
WordStarts(text) ==
    {i \in 1..Len(text) :
        \/ ~Quoted(text, i) /\ text[i] \in ShellOperators
        \/ ~Separates(text, i) /\ (i = 1 \/ Separates(text, i - 1))}

\* The word that begins at position i, without its quotes.
WordAt(text, i) ==
    IF ~Quoted(text, i) /\ text[i] \in ShellOperators THEN OperatorWord(text[i])
    ELSE LET last == CHOOSE e \in i..Len(text) :
                        /\ e = Len(text) \/ Separates(text, e + 1)
                        /\ \A j \in i..e : ~Separates(text, j)
             NotQuote(c) == c # "'"
         IN  SelectSeq(SubSeq(text, i, last), NotQuote)

ShellWords(text) ==
    LET starts == WordStarts(text)
        nth(k) == CHOOSE p \in starts : Cardinality({q \in starts : q < p}) = k - 1
    IN  [k \in 1..Cardinality(starts) |-> WordAt(text, nth(k))]

\* The words of the source's command templates.
TemplateWords ==
    { <<w>> : w \in {"kubectl", "get", "logs", "describe", "top", "pods", "pod",
                     "-n", Namespace, "--field-selector=status.phase=Running",
                     "--no-headers", "grep", "-f"} } \cup {OperatorWord("|")}

IsFreeWord(w) == w \notin TemplateWords

\* The words of a command that are not words of its template.
FreeWords(text) == SelectSeq(ShellWords(text), IsFreeWord)

ValidationMessages ==
    {"Search keyword cannot be empty", "Pod name cannot be empty",
     "Search pattern cannot be empty",
     "Invalid search pattern - contains no valid characters",
     "Invalid pod name - contains no valid characters",
     "Invalid pod name - must start with alphanumeric character",
     "Invalid pod name - must end with alphanumeric character",
     "Invalid pod name - exceeds maximum length of 253 characters"}

\* An operation with a keyword or pod name is called in this step.
CallsWithArgument == k_calls' > k_calls /\ k_op' \in OpsWithArgument

\* What the sanitizer of the operation called in this step gives.
SanitizerSays ==
    IF k_op' = "list_pods" THEN _sanitize_grep_pattern(k_arg)
    ELSE _sanitize_pod_name(k_arg)

\* C21: a command that list_pods, stream_pod_logs, get_pod_details or
\* get_pod_metrics sends holds the keyword or pod name of the caller only
\* as the one word the sanitizer returned; and when the sanitizer rejects
\* the input, the operation raises the validation error, sends nothing and
\* leaves the session as it was.
C21_OnlySanitizedArguments ==
    [][CallsWithArgument =>
         IF SanitizerSays.kind = "raised"
         THEN /\ k_result'.kind = "raised"
              /\ k_result'.value \in ValidationMessages
              /\ sent' = sent
              /\ <<connected', shell', client', chan_closed'>>
                     = <<connected, shell, client, chan_closed>>
         ELSE \/ sent' = sent
              \/ /\ Len(sent') = Len(sent) + 1
                 /\ SubSeq(sent', 1, Len(sent)) = sent
                 /\ FreeWords(sent'[Len(sent')]) = << SanitizerSays.value >>]_vars

\* C21 witness: a keyword with a `;` in it was given to list_pods, which
\* sent its command, after an operation that refused the same string as a
\* pod name.
C21_Witness ==
    /\ k_op = "list_pods"
    /\ k_calls = 2
    /\ k_result.kind = "returned"
    /\ Len(sent) = 1
    /\ \E i \in 1..Len(k_arg) : k_arg[i] = ";"
    /\ _sanitize_pod_name(k_arg).kind = "raised"

AllowedVerbs == { <<"get">>, <<"logs">>, <<"describe">>, <<"top">> }

\* The words of the command begin with kubectl and an allowed verb, and so
\* does every kubectl command after an operator.
OnlyAllowedVerbs(words) ==
    /\ Len(words) >= 2
    /\ words[1] = <<"kubectl">>
    /\ \A i \in 1..Len(words) :
         (words[i] = <<"kubectl">> /\ (i = 1 \/ words[i - 1] \in OperatorWords))
            => (i < Len(words) /\ words[i + 1] \in AllowedVerbs)

-----------------------------------------------------------------------------
(***************************************************************************)
(* MainWindow.handle_disconnect, checked under Spec.                       *)
(***************************************************************************)

\* handle_disconnect reaches its teardown in this step: the manager of the
\* metrics connection is disconnected and the disconnect thread is started.
TeardownBegins ==
    /\ Tasks(workers, "disconnect") = {}
    /\ Tasks(workers', "disconnect") # {}

\* The slot of the disconnected signal is served in this step.
DisconnectEnds ==
    /\ ui = <<>>
    /\ signals # <<>> /\ Head(signals) = "disconnected"
    /\ signals' = Tail(signals)

\* The log and metrics tasks that are active: the threads that have begun
\* run() and have not finished.
StreamingTasks(ws) ==
    {w \in Tasks(ws, "logs") \cup Tasks(ws, "metrics") : ws[w].pc # "start"}

\* The managers that are connected or being connected.
LiveSessions(mgrs, mc) ==
    {m \in ManagerIds : mgrs[m].connected
                          \/ (mc.pc = "connecting" /\ mc.ssh_manager = m)}

\* The stops come before the teardown: when the teardown begins every log
\* and metrics thread that still runs has its stop flag set.
StopsBeforeTeardown ==
    [][TeardownBegins =>
          \A w \in StreamingTasks(workers') : workers'[w].stop]_vars

\* C24 (as claimed): disconnect requests the stop of every active log and
\* metrics task before it tears the sessions down, and when it has ended
\* (the disconnected signal is served) no session of the window is connected
\* or being connected: both the main and the metrics session are
\* disconnected.
C24_DisconnectStopsThenTearsDown ==
    /\ StopsBeforeTeardown
    /\ [][DisconnectEnds => LiveSessions(managers', metrics_connection_worker') = {}]_vars

\* C34: no session is torn down (its channel closed and cleared by
\* disconnect) while a thread is inside execute_command or
\* execute_streaming_command on it: a thread that is inside a command has
\* the channel of its manager.
C34_NoTeardownUnderCommand ==
    \A m \in ManagerIds : InCommand(m) # {} => managers[m].shell

-----------------------------------------------------------------------------
(***************************************************************************)
(* ArgoWorker: one thread, from start() to the end of run().  The manager  *)
(* and the operations answer each call in any way they can: they return,   *)
(* or they raise.  The metrics handler is the one followed by the actions  *)
(* of _handle_metrics above.                                               *)
(***************************************************************************)

MaxTaskLines == 2   \* lines of the output list_all_pods returns

\* The actions run() knows, and one it does not.
KnownActions == {"connect", "list_all_pods", "list_pods", "logs", "metrics",
                 "disconnect"}

TaskActions == KnownActions \cup {"restart"}

\* The exceptions the manager and the operations raise; each derives from
\* Exception.
Exceptions == {"RuntimeError", "ValueError", "OSError"}

\* SSHConnectionManager.connect raises these, and the operations these
\* (ValueError is the one of the empty test and of the sanitizers).
SessionFailures == {"RuntimeError", "OSError"}

FacadeFailures == {"RuntimeError", "ValueError"}

\* The lines of an output of kubectl get pods, and the outputs.
TaskLines ==
    {HeaderLine, <<"No", " ", "resources", " ", "found">>, <<"[", "a", "]", "$", " ">>}
        \cup PodLines

TaskOutputs == UNION { [1..n -> TaskLines] : n \in 0..MaxTaskLines }

\* The lists of pods list_pods returns.
TaskPodLists == { <<>>, << <<"a", "-", "7">> >> }

\* The signals: <<name, argument>>.
OutputEvent(text) == <<"output", text>>
ErrorEvent(prefix, exc) == <<"error", <<prefix, exc>>>>
ConnectedEvent == <<"connected", <<>>>>
DisconnectedEvent == <<"disconnected", <<>>>>
PodsEvent(pod_names) == <<"pods", pod_names>>

\* `except Exception`
Catches_runtime_error_only(exc) == exc = "RuntimeError"

Catches(exc) == exc \in Exceptions

\* The except clause of a handler: the error is shown and emitted, and the
\* handler returns.
Handled_and_raised_again(evs, prefix, exc) ==
    [events |-> evs \o <<OutputEvent("[ERROR]"), ErrorEvent(prefix, exc)>>,
     raised |-> exc]

Handled(evs, prefix, exc) ==
    IF Catches(exc)
    THEN [events |-> evs \o <<OutputEvent("[ERROR]"), ErrorEvent(prefix, exc)>>,
          raised |-> "none"]
    ELSE [events |-> evs, raised |-> exc]

\* The handler returns.
Completed(evs) == [events |-> evs, raised |-> "none"]

\* run lines 74-81: what leaves the handler is emitted as an error, and
\* run() ends
RunEnds(h) ==
    IF h.raised = "none" THEN [events |-> h.events, result |-> "returned"]
    ELSE IF Catches(h.raised)
    THEN [events |-> Append(h.events, ErrorEvent("Unexpected error", h.raised)),
          result |-> "returned"]
    ELSE [events |-> h.events, result |-> "raised"]

\* The handler ends as h tells, after exc reached its except clause.
Finish(h, exc) ==
    /\ t_pc' = "done"
    /\ t_events' = RunEnds(h).events
    /\ t_result' = RunEnds(h).result
    /\ t_raised' = exc

\* _handle_connect lines 193-197: connect() raised
ConnectRaised_retry(evs, exc) == [h |-> Completed(evs), pc |-> "connect"]

ConnectRaised(evs, exc) ==
    [h |-> Handled(evs, "Connection failed", exc), pc |-> "done"]

\* lines 174-184 and 191: list_all_pods returned pods_output
ConnectListed_connected_first(evs, pods_output) ==
    evs \o <<ConnectedEvent, OutputEvent(pods_output)>>
        \o (IF _parse_pod_names(pods_output) # <<>>
            THEN <<OutputEvent("[OK]"), PodsEvent(_parse_pod_names(pods_output))>>
            ELSE <<OutputEvent("[INFO] No running pods found")>>)

ConnectListed(evs, pods_output) ==
    evs \o <<OutputEvent(pods_output)>>
        \o (IF _parse_pod_names(pods_output) # <<>>
            THEN <<OutputEvent("[OK]"), PodsEvent(_parse_pod_names(pods_output))>>
            ELSE <<OutputEvent("[INFO] No running pods found")>>)
        \o <<ConnectedEvent>>

\* ArgoWorker.__init__ and start()
TaskInit ==
    /\ t_pc = "created"
    /\ t_action \in TaskActions
    /\ t_session \in {"none", "down", "up"}
    /\ t_events = <<>>
    /\ t_calls = <<>>
    /\ t_listed = <<>>
    /\ t_raised = "none"
    /\ t_result = "none"

\* run lines 58-72: the handler of the action is entered; an action run()
\* does not know is emitted as an error
TaskRun ==
    /\ t_pc = "created"
    /\ IF t_action \in KnownActions
       THEN /\ t_pc' = t_action
            /\ UNCHANGED <<t_events, t_raised, t_result>>
       ELSE Finish(Completed(Append(t_events, ErrorEvent("Unknown action", t_action))),
                   "none")
    /\ UNCHANGED <<t_action, t_session, t_calls, t_listed>>
    /\ UNCHANGED restOfTask

\* _handle_connect lines 141-160: up to the return of connect()
TaskConnect ==
    /\ t_pc = "connect"
    /\ IF t_session = "up"
       THEN /\ Finish(Completed(t_events \o <<OutputEvent("[INFO] Already connected"),
                                              ConnectedEvent>>), "none")
            /\ UNCHANGED <<t_session, t_calls>>
       ELSE /\ t_calls' = Append(t_calls, "connect")
            /\ \/ /\ t_session' = "up"
                  /\ t_pc' = "connect_list"
                  /\ UNCHANGED <<t_events, t_raised, t_result>>
               \/ \E exc \in SessionFailures :
                    \E r \in {ConnectRaised(t_events, exc)} :
                      /\ t_session' = "down"
                      /\ IF r.pc = "done"
                         THEN Finish(r.h, exc)
                         ELSE /\ t_pc' = r.pc
                              /\ t_events' = r.h.events
                              /\ UNCHANGED <<t_raised, t_result>>
    /\ UNCHANGED <<t_action, t_listed>>
    /\ UNCHANGED restOfTask

\* _handle_connect lines 164-191: the pods are listed, and connected is
\* emitted whatever the listing gave
TaskConnectList ==
    /\ t_pc = "connect_list"
    /\ t_calls' = Append(t_calls, "list_all_pods")
    /\ \/ \E pods_output \in TaskOutputs :
            /\ t_listed' = <<"returned", pods_output>>
            /\ Finish(Completed(ConnectListed(t_events, pods_output)), "none")
       \/ /\ t_listed' = <<"raised", "RuntimeError">>
          /\ Finish(Completed(t_events \o <<OutputEvent("[WARNING] Could not list pods"),
                                            ConnectedEvent>>), "none")
    /\ UNCHANGED <<t_action, t_session>>
    /\ UNCHANGED restOfTask

\* ArgoWorker._handle_list_all_pods
TaskListAllPods ==
    /\ t_pc = "list_all_pods"
    /\ IF t_session # "up"
       THEN /\ Finish(Handled(t_events, "Failed to refresh pods", "RuntimeError"),
                      "RuntimeError")
            /\ UNCHANGED <<t_calls, t_listed>>
       ELSE /\ t_calls' = Append(t_calls, "list_all_pods")
            /\ \/ \E pods_output \in TaskOutputs :
                    /\ t_listed' = <<"returned", pods_output>>
                    /\ Finish(Completed(t_events \o
                                <<OutputEvent(pods_output),
                                  PodsEvent(_parse_pod_names(pods_output))>>), "none")
               \/ /\ t_listed' = <<"raised", "RuntimeError">>
                  /\ Finish(Handled(t_events, "Failed to refresh pods", "RuntimeError"),
                            "RuntimeError")
    /\ UNCHANGED <<t_action, t_session>>
    /\ UNCHANGED restOfTask

\* ArgoWorker._handle_list_pods
TaskListPods ==
    /\ t_pc = "list_pods"
    /\ IF t_session # "up"
       THEN /\ Finish(Handled(t_events, "Failed to list pods", "RuntimeError"),
                      "RuntimeError")
            /\ UNCHANGED t_calls
       ELSE /\ t_calls' = Append(t_calls, "list_pods")
            /\ \/ \E pods \in TaskPodLists :
                    Finish(Completed(t_events \o <<OutputEvent("[CMD]"), PodsEvent(pods)>>),
                           "none")
               \/ \E exc \in FacadeFailures :
                    Finish(Handled(Append(t_events, OutputEvent("[CMD]")),
                                   "Failed to list pods", exc), exc)
    /\ UNCHANGED <<t_action, t_session, t_listed>>
    /\ UNCHANGED restOfTask

\* ArgoWorker._handle_logs
TaskLogs ==
    /\ t_pc = "logs"
    /\ IF t_session # "up"
       THEN /\ Finish(Handled(t_events, "Failed to stream logs", "RuntimeError"),
                      "RuntimeError")
            /\ UNCHANGED t_calls
       ELSE /\ t_calls' = Append(t_calls, "stream_pod_logs")
            /\ \/ Finish(Completed(t_events \o
                           <<OutputEvent("[CMD]"),
                             OutputEvent("[INFO] Log streaming stopped")>>), "none")
               \/ \E exc \in FacadeFailures :
                    Finish(Handled(Append(t_events, OutputEvent("[CMD]")),
                                   "Failed to stream logs", exc), exc)
    /\ UNCHANGED <<t_action, t_session, t_listed>>
    /\ UNCHANGED restOfTask

\* ArgoWorker._handle_disconnect
TaskDisconnect ==
    /\ t_pc = "disconnect"
    /\ IF t_session # "none"
       THEN /\ t_calls' = Append(t_calls, "disconnect")
            /\ t_session' = "down"
       ELSE UNCHANGED <<t_calls, t_session>>
    /\ Finish(Completed(Append(t_events, DisconnectedEvent)), "none")
    /\ UNCHANGED <<t_action, t_listed>>
    /\ UNCHANGED restOfTask

\* _handle_metrics is entered: its steps are those of MetricsNext
TaskMetricsEnter ==
    /\ t_pc = "metrics"
    /\ m_pc = "idle"
    /\ m_pc' = "start"
    /\ m_pod' \in {"none", "valid", "invalid"}
    /\ m_connected' = (t_session = "up")
    /\ UNCHANGED <<should_stop, failed_attempts, retry_delay, m_window, m_events,
                   m_errors, m_fetches>>
    /\ UNCHANGED restOfMetrics

\* _handle_metrics returns, and run() with it
TaskMetricsEnd ==
    /\ t_pc = "metrics"
    /\ m_pc = "done"
    /\ Finish(Completed(t_events), "none")
    /\ UNCHANGED <<t_action, t_session, t_calls, t_listed>>
    /\ UNCHANGED restOfTask

TaskNext ==
    \/ TaskRun
    \/ TaskConnect
    \/ TaskConnectList
    \/ TaskListAllPods
    \/ TaskListPods
    \/ TaskLogs
    \/ TaskDisconnect
    \/ TaskMetricsEnter
    \/ TaskMetricsEnd
    \/ MetricsNext

InitTask ==
    /\ TaskInit /\ MetricsIdle /\ SessionIdle /\ LogIdle /\ WindowIdle
    /\ CallIdle /\ PromptIdle /\ SanitizeIdle /\ ParseIdle /\ FacadeIdle

SpecTask == InitTask /\ [][TaskNext]_vars

-----------------------------------------------------------------------------
(***************************************************************************)
(* Properties of one worker task, checked under SpecTask.                  *)
(***************************************************************************)

\* The signals of one name the task has emitted, in order.
EventsOf(name) == SelectSeq(t_events, LAMBDA e : e[1] = name)

\* The error signals of the task, those of the metrics handler included.
ErrorsEmitted == Len(EventsOf("error")) + m_errors

C26_ConnectCalledAtMostOnce ==
    /\ [](Count(t_calls, "connect") <= 1)
    /\ []((t_action = "connect" /\ t_raised # "none") =>
              /\ t_pc = "done"
              /\ t_calls = <<"connect">>
              /\ Len(EventsOf("error")) = 1
              /\ EventsOf("connected") = <<>>)
    /\ [][t_pc = "done" => (t_calls' = t_calls /\ t_events' = t_events)]_vars

\* C26 witness: connect() raised in a task that had a manager.
C26_Witness ==
    /\ t_action = "connect" /\ t_pc = "done" /\ t_raised = "OSError"
    /\ t_session = "down"
    /\ Last(t_events) = ErrorEvent("Connection failed", "OSError")

\* C27 (as claimed): when connect() has succeeded and list_all_pods has
\* returned its output, the task has listed the pods on that manager, has
\* emitted the pod names parsed from the output as one pods signal, and
\* after it the connected signal, once.
C27_PodListThenConnected ==
    (t_action = "connect" /\ t_pc = "done" /\ t_listed # <<>>
        /\ t_listed[1] = "returned") =>
        /\ t_calls = <<"connect", "list_all_pods">>
        /\ EventsOf("pods") = <<PodsEvent(_parse_pod_names(t_listed[2]))>>
        /\ Len(EventsOf("connected")) = 1
        /\ Last(t_events) = ConnectedEvent

\* C29: a worker task emits at most one error signal, whatever its action
\* and whatever the manager and the operations answer.
C29_AtMostOneError == ErrorsEmitted <= 1

\* C29 witness: a metrics task ended with its one error after more than one
\* answer of kubectl top.
C29_Witness ==
    /\ t_action = "metrics" /\ t_pc = "done"
    /\ m_fetches >= 2 /\ m_errors = 1 /\ ErrorsEmitted = 1

-----------------------------------------------------------------------------
(***************************************************************************)
(* ArgoWorker._handle_connect on the manager it was given.  The window     *)
(* hands its self.ssh_manager to every connect task; that manager is new,  *)
(* ready, or left by an earlier task with its flag set and its channel     *)
(* closed by the remote side.  The calls of the handler are the ones of    *)
(* SSHConnectionManager above.                                             *)
(***************************************************************************)

\* The managers the task can be given: <<connected, shell, channel>>.
NewManager   == [connected |-> FALSE, shell |-> 0, closed |-> "no"]
ReadyManager == [connected |-> TRUE, shell |-> 1, closed |-> "no"]
DeadManager  == [connected |-> TRUE, shell |-> 1, closed |-> "remote"]

GivenManagers == {NewManager, ReadyManager, DeadManager}

\* ArgoWorker(action="connect", ssh_manager=self.ssh_manager) and start()
ConnectTaskInit ==
    /\ \E mgr \in GivenManagers :
         /\ connected = mgr.connected
         /\ shell = mgr.shell
         /\ client = mgr.shell
         /\ chan_closed = mgr.closed
         /\ s_opened = mgr.shell
    /\ pending = 0 /\ produced = 0 /\ sent = <<>>
    /\ s_pc = "idle" /\ s_call = "none" /\ s_result = "none" /\ s_output = 0
    /\ s_events = 0 /\ s_calls = <<>> /\ s_before = <<>> /\ s_prompts = 0
    /\ t_pc = "created"
    /\ t_action = "connect"
    /\ t_session = "down"
    /\ t_events = <<>>
    /\ t_calls = <<>>
    /\ t_listed = <<>>
    /\ t_raised = "none"
    /\ t_result = "none"

\* lines 141-157: a manager that is_connected() is reported as connected at
\* once; otherwise the handler goes on to connect()
ConnectTaskEnter ==
    /\ t_pc = "created"
    /\ IF is_connected(connected, shell, chan_closed)
       THEN /\ t_events' = t_events \o <<OutputEvent("[INFO] Already connected"),
                                         ConnectedEvent>>
            /\ t_pc' = "done"
            /\ t_result' = "returned"
       ELSE /\ t_pc' = "connect"
            /\ UNCHANGED <<t_events, t_result>>
    /\ UNCHANGED <<t_action, t_session, t_calls, t_listed, t_raised>>
    /\ UNCHANGED restOfTask

\* line 160: self.ssh_manager.connect()
ConnectTaskConnect ==
    /\ t_pc = "connect"
    /\ s_calls = <<>>
    /\ CallConnect

\* lines 162-167 and 193-197: connect() has returned, or it has raised and
\* the except clause ends the handler
ConnectTaskConnected ==
    /\ t_pc = "connect"
    /\ s_pc = "idle"
    /\ Len(s_calls) = 1
    /\ IF s_result.kind = "raised"
       THEN Finish(ConnectRaised(t_events, "RuntimeError").h, "RuntimeError")
       ELSE /\ t_pc' = "list"
            /\ t_events' = t_events \o <<OutputEvent("[INFO] Listing all running pods"),
                                         OutputEvent("[CMD] kubectl get pods")>>
            /\ UNCHANGED <<t_raised, t_result>>
    /\ UNCHANGED <<t_action, t_session, t_calls, t_listed>>
    /\ UNCHANGED restOfTask

\* line 170: k8s.list_all_pods(), which calls execute_command
ConnectTaskList ==
    /\ t_pc = "list"
    /\ Len(s_calls) = 1
    /\ CallExecute("execute_command")

\* lines 171-191: the output is shown and parsed, or the exception of
\* list_all_pods is shown as a warning; then connected is emitted
ConnectTaskEmit ==
    /\ t_pc = "list"
    /\ s_pc = "idle"
    /\ Len(s_calls) = 2
    /\ IF s_result.kind = "raised"
       THEN /\ t_events' = t_events \o <<OutputEvent("[WARNING] Could not list pods"),
                                         ConnectedEvent>>
            /\ UNCHANGED t_listed
       ELSE \E pods_output \in TaskOutputs :
               /\ t_listed' = pods_output
               /\ t_events' = ConnectListed(t_events, pods_output)
    /\ t_pc' = "done"
    /\ t_result' = "returned"
    /\ UNCHANGED <<t_action, t_session, t_calls, t_raised>>
    /\ UNCHANGED restOfTask

ConnectTaskNext ==
    \/ ConnectTaskEnter
    \/ ConnectTaskConnect
    \/ ConnectOpen
    \/ ConnectShell
    \/ ConnectPrompt
    \/ ConnectHop
    \/ ConnectSudo
    \/ ConnectTaskConnected
    \/ ConnectTaskList
    \/ ExecuteWait
    \/ ConnectTaskEmit
    \/ SessionRemoteClose

InitConnectTask ==
    /\ ConnectTaskInit /\ MetricsIdle /\ LogIdle /\ WindowIdle /\ PromptIdle
    /\ SanitizeIdle /\ ParseIdle /\ FacadeIdle

SpecConnectTask == InitConnectTask /\ [][ConnectTaskNext]_vars

\* The step emits the connected signal.
EmitsConnected ==
    /\ t_events' # t_events
    /\ Last(t_events') = ConnectedEvent

\* C32: whenever a connect task emits the connected event, the manager it
\* holds satisfies is_connected() (flag set, channel there and open) at that
\* moment, whatever manager the task was given.
C32_ConnectedMeansIsConnected ==
    [][EmitsConnected => is_connected(connected, shell, chan_closed)]_vars

-----------------------------------------------------------------------------
(***************************************************************************)
(* The two enduring tasks and their stop flags: a log task as in           *)
(* SpecStream, or a metrics task as in SpecMetrics, with a thread that     *)
(* keeps running.                                                          *)
(***************************************************************************)

\* The steps of the thread of the log task.
StreamStep ==
    \/ LogsStart
    \/ StreamEnter
    \/ StreamStopCheck
    \/ StreamInterrupt
    \/ StreamDrain
    \/ StreamRead
    \/ LogsFinish
    \/ LogsFail

\* The steps of the thread of the metrics task.
MetricsStep ==
    \/ MetricsStart
    \/ MetricsLoopCheck
    \/ MetricsFetch
    \/ MetricsSleepDone

InitStop == InitStream \/ InitMetrics

StopNext ==
    \/ StreamNext
    \/ MetricsNext

SpecStop == InitStop /\ [][StopNext]_vars

\* The thread of the task is scheduled again and again, and each call it
\* waits in returns: time.sleep after its time, execute_command at its
\* timeout.
SpecStopLive == SpecStop /\ WF_vars(StreamStep \/ MetricsStep)

-----------------------------------------------------------------------------
(***************************************************************************)
(* Properties of the stop flags, checked under SpecStopLive.               *)
(***************************************************************************)

\* How many places a log task whose stop flag is set has before its end.
StreamStepsLeft(pc) ==
    CASE pc = "done" -> 0
      [] pc \in {"returned", "raised"} -> 1
      [] pc = "drain" -> 2
      [] pc = "interrupt" -> 3
      [] pc = "loop" -> 4
      [] pc = "read" -> 5
      [] pc = "enter" -> 6
      [] pc = "start" -> 7
      [] OTHER -> 0

\* The same for a metrics task.
MetricsStepsLeft(pc) ==
    CASE pc = "done" -> 0
      [] pc = "loop" -> 1
      [] pc = "sleep" -> 2
      [] pc = "fetch" -> 3
      [] pc = "start" -> 4
      [] OTHER -> 0

\* The stop flag of the task that runs is set.
StopRequested ==
    \/ l_pc # "idle" /\ l_should_stop
    \/ m_pc # "idle" /\ should_stop

\* C28: once its stop flag is set, a running log task ends, and from the
\* read loop it does so by one more pass (a read or the 0.1 s sleep), the
\* test of the flag, the interrupt and the drain; a running metrics task
\* ends, after the fetch it is in, one sleep and the test of the flag at the
\* most.  Every sleep of either task is followed by a test of the stop
\* flag.
C28_StopIsHonoured ==
    /\ StopRequested ~> (l_pc = "done" \/ m_pc = "done")
    /\ [][(l_should_stop /\ l_pc' # l_pc) =>
              StreamStepsLeft(l_pc') < StreamStepsLeft(l_pc)]_vars
    /\ [][(should_stop /\ m_pc' # m_pc) =>
              MetricsStepsLeft(m_pc') < MetricsStepsLeft(m_pc)]_vars
    /\ [][(l_pc = "read" /\ l_pc' # l_pc /\ l_events' = l_events
              /\ l_result' = l_result) => l_pc' = "loop"]_vars
    /\ [][(m_pc = "sleep" /\ m_pc' # m_pc) => m_pc' = "loop"]_vars

\* C28 witness: the stop flag of a metrics task was set while the task
\* slept after a fetch that failed, and the task has ended without an error.
C28_Witness ==
    /\ m_pc = "done" /\ should_stop
    /\ m_fetches >= 1 /\ failed_attempts >= 1 /\ m_errors = 0

-----------------------------------------------------------------------------
(***************************************************************************)
(* Claims on the retries of the metrics task (checked under SpecMetrics)   *)
(***************************************************************************)

\* The seconds the task waits after the k-th failure in a row.
BackoffSeconds == <<2, 4, 5, 5, 5, 5>>

CapErrors == {EvErrTimed, EvErrCap}

SoftOutcomes == {"too_new", "other"}

GiveUpErrors == {EvErrTooNew, EvErrTimed, EvErrCap}

\* The task has given up: its last signal is the error of the retry cap.
GaveUp == m_pc = "done" /\ m_events # <<>> /\ Last(m_events) \in GiveUpErrors

\* The fetches made since the start or the last success all failed softly.
SoftFailuresOnly == \A i \in 1..Len(m_window) : m_window[i] \in SoftOutcomes

-----------------------------------------------------------------------------
(***************************************************************************)
(* Claims on the channel after a stream (checked under SpecStream)         *)
(***************************************************************************)

\* The next execute_command returns: _wait_for_prompt has read into its
\* buffer everything the channel held, and the buffer is the result.
FollowUpReturns == follow = "none" /\ follow' = "returned"

\* C33: the text execute_command returns consists only of what the remote
\* side produced after its command was sent: nothing that a stream which
\* was stopped or broke off left on the channel is part of it, that is, the
\* channel holds nothing unread when the command is sent.
C33_ResultHoldsOnlyOwnOutput ==
    [][FollowUpReturns => pending = 0]_vars

\* C35: after the owner has set the stop flag of a log task, at most one more
\* chunk reaches output_callback: the one of the read that was past the test
\* of the flag when the flag was set.
C35_AtMostOneChunkAfterStop ==
    l_should_stop => Count(l_events, EvChunk) <= l_chunks_at_flag + 1

\* C35 witness: the flag was set between the test and the read, that read
\* gave its chunk to output_callback, and the task has ended by the stop path.
C35_Witness ==
    /\ l_should_stop
    /\ Count(l_events, EvChunk) = l_chunks_at_flag + 1
    /\ l_result = "stop_path"
    /\ l_pc = "done"

\* C39: when the read of the channel or output_callback raises in the loop
\* of execute_streaming_command, the call returns without raising and
\* without sending the interrupt, and it changes no field of the session;
\* the log task then emits the 'streaming stopped' text as its last signal
\* and no error: the remote command is left running on the channel.
C39_ReadErrorEndsStreamQuietly ==
    l_result = "read_break" =>
        /\ l_pc \in {"returned", "done"}
        /\ ~l_stop_seen
        /\ Count(sent, CtrlC) = 0
        /\ <<connected, shell, client>> = l_entry
        /\ Count(l_events, EvError) = 0
        /\ Count(l_events, EvErrText) = 0
        /\ l_pc = "done" => Last(l_events) = EvStopped

\* C39 witness: the loop broke off with no stop requested, the task has
\* ended, and the channel is still open.
C39_Witness ==
    /\ l_result = "read_break"
    /\ l_pc = "done"
    /\ ~l_should_stop
    /\ chan_closed = "no"
    /\ Last(sent) = CmdLogs

=============================================================================
